---- MODULE Spec2Model ----
(***************************************************************************)
(* OfficeRnD Flex 2 API client of SoCentral/somembers: the OAuth token     *)
(* cache, the authenticated GET helper, the cursor-following page loop and *)
(* the two resource fetchers, run by concurrent asynchronous callers; then  *)
(* the synchronous functions: the configuration loader and the             *)
(* transformation layer (src/lib/transform.ts).                            *)
(*                                                                         *)
(* An async function is cut at its awaits: the code between two awaits     *)
(* runs to completion (JavaScript's run-to-completion), so each action is  *)
(* one such segment.  `await fetch(..)` followed by `await response.json()`*)
(* touches no shared state in between and is one action.                   *)
(***************************************************************************)
EXTENDS Integers, Sequences, FiniteSets, TLC

(***************************************************************************)
(* JavaScript values.  One record shape for all of them, so that any two   *)
(* values can be compared.                                                 *)
(***************************************************************************)
Undefined == [t |-> "undefined", s |-> "", n |-> 0]
Null == [t |-> "null", s |-> "", n |-> 0]
NaN == [t |-> "NaN", s |-> "", n |-> 0]
Str(x) == [t |-> "string", s |-> x, n |-> 0]
Num(x) == [t |-> "number", s |-> "", n |-> x]
True == [t |-> "boolean", s |-> "", n |-> 1]
False == [t |-> "boolean", s |-> "", n |-> 0]
\* The completion of a call that threw an Error with this message.
Throw(message) == [t |-> "throw", s |-> message, n |-> 0]

\* ToBoolean: undefined, null, NaN, "" and 0 are falsy.
Truthy(v) ==
    CASE v.t = "string" -> v.s # ""
      [] v.t = "number" -> v.n # 0
      [] v.t = "boolean" -> v.n = 1
      [] v.t \in {"object", "array"} -> TRUE
      [] OTHER -> FALSE

\* ToNumber on the values a JSON body can hold here.
ToNumber(v) ==
    CASE v.t = "number" -> v
      [] v.t = "null" -> Num(0)
      [] v.t = "string" /\ v.s = "" -> Num(0)
      [] OTHER -> NaN

\* a * b and a + b on numbers: NaN is contagious.
JsMul(a, b) ==
    IF ToNumber(a).t = "number" /\ ToNumber(b).t = "number"
    THEN Num(ToNumber(a).n * ToNumber(b).n) ELSE NaN

JsAdd(a, b) ==
    IF ToNumber(a).t = "number" /\ ToNumber(b).t = "number"
    THEN Num(ToNumber(a).n + ToNumber(b).n) ELSE NaN

\* a > b on numbers: every comparison with NaN is false.
JsGT(a, b) == a.t = "number" /\ b.t = "number" /\ a.n > b.n

\* `${v}` in a template literal.
TemplateString(v) ==
    CASE v.t = "string" -> v.s
      [] v.t = "null" -> "null"
      [] v.t = "undefined" -> "undefined"
      [] OTHER -> "NaN"

(***************************************************************************)
(* Program constants.                                                      *)
(***************************************************************************)
TOKEN_ENDPOINT == "https://identity.officernd.com/oauth/token"
API_BASE_URL == "https://app.officernd.com/api/v2/organizations"
TOKEN_BUFFER_MS == 60000
MS_PER_SECOND == 1000

(***************************************************************************)
(* Bounds of the model.                                                    *)
(***************************************************************************)
MaxTicks == 2
MaxPages == 4

Callers == {"A", "B"}
\* The caller that runs the build's pipeline.
Pipeline == {"A"}
OrgSlugs == {"socentral", "other"}
\* The clock advances in steps of half the expiry buffer, so that a cached
\* expiry can lie above, exactly at and below now + TOKEN_BUFFER_MS.
TickMs == TOKEN_BUFFER_MS \div 2

(***************************************************************************)
(* URLs: the path and the query string `?$cursorNext=<query>` (Undefined:  *)
(* no query string).                                                       *)
(***************************************************************************)
Url(base, query) == [base |-> base, query |-> query]
TokenUrl == Url(<<TOKEN_ENDPOINT>>, Undefined)
NoUrl == Url(<<>>, Undefined)

\* `${API_BASE_URL}/${config.orgSlug}/members` and `.../companies`
ResourceEndpoint(orgSlug, resource) == Url(<<API_BASE_URL, orgSlug, resource>>, Undefined)

(***************************************************************************)
(* ApiError(message, statusCode, endpoint).  A message is its fixed text   *)
(* and the value interpolated after it.                                    *)
(***************************************************************************)
Message(text, arg) == [text |-> text, arg |-> arg]
ApiError(message, statusCode, endpoint) ==
    [name |-> "ApiError", message |-> message, statusCode |-> statusCode,
     endpoint |-> endpoint]
NoError == [name |-> "", message |-> Message("", Undefined), statusCode |-> Undefined,
            endpoint |-> NoUrl]

(***************************************************************************)
(* What the network hands back to one fetch(): a rejection (transport      *)
(* failure, an Error with a message) or an HTTP response with a status and *)
(* a body that parses as JSON or does not.                                 *)
(***************************************************************************)
NoBody ==
    [access_token |-> Undefined, expires_in |-> Undefined,
     error_description |-> Undefined, error |-> Undefined, message |-> Undefined,
     results |-> <<>>, cursorNext |-> Undefined]

Rejected(cause) ==
    [kind |-> "rejected", cause |-> cause, status |-> 0, json |-> FALSE, body |-> NoBody]
Http(status, json, body) ==
    [kind |-> "http", cause |-> "", status |-> status, json |-> json, body |-> body]
NoResponse == [kind |-> "none", cause |-> "", status |-> 0, json |-> FALSE, body |-> NoBody]

\* response.ok
Ok(r) == r.status >= 200 /\ r.status <= 299

TransportCauses == {"ECONNRESET"}

AccessTokens == {Str("tokA"), Str("tokB")}
NoAccessTokens == {Undefined, Str("")}
ExpiresIns == {Undefined, Num(60), Num(120)}
ErrorDescriptions == {Undefined, Str(""), Str("bad secret")}
ErrorCodes == {Undefined, Str("invalid_client")}

\* The answers of the token endpoint that differ in more than the text of an
\* error, and all of them.
CoreTokenResponses ==
    {Rejected(m) : m \in TransportCauses}
    \cup {Http(st, FALSE, NoBody) : st \in {200, 401}}
    \cup {Http(200, TRUE, [NoBody EXCEPT !.access_token = a, !.expires_in = x]) :
            a \in AccessTokens, x \in ExpiresIns}
    \cup {Http(200, TRUE, [NoBody EXCEPT !.access_token = a, !.expires_in = Num(60)]) :
            a \in NoAccessTokens}

TokenResponses ==
    CoreTokenResponses
    \cup {Http(401, TRUE, [NoBody EXCEPT !.error_description = d, !.error = e]) :
            d \in ErrorDescriptions, e \in ErrorCodes}


(***************************************************************************)
(* The resource API: a cursor-paginated collection.  A request is keyed by *)
(* its query string (Undefined: the first page) and is answered with the   *)
(* page of that key: its items and the cursorNext the API chains to.       *)
(***************************************************************************)
PageKeys == {Undefined, Str(""), Str("c1"), Str("c2")}

\* Members are the items 1.., companies the items 11..
ItemBase(resource) == IF resource = "members" THEN 0 ELSE 10

PageResults(resource, key) ==
    CASE key = Undefined -> <<ItemBase(resource) + 1, ItemBase(resource) + 2>>
      [] key = Str("c1") -> <<ItemBase(resource) + 3, ItemBase(resource) + 4>>
      [] key = Str("c2") -> <<ItemBase(resource) + 5>>
      [] OTHER -> <<ItemBase(resource) + 6>>

Api(first, afterEmpty, afterC1, afterC2) ==
    [k \in PageKeys |->
        CASE k = Undefined -> first
          [] k = Str("") -> afterEmpty
          [] k = Str("c1") -> afterC1
          [] OTHER -> afterC2]

Apis ==
    { Api(Undefined, Undefined, Undefined, Undefined),   \* one page
      Api(Str("c1"), Undefined, Undefined, Undefined),   \* two pages
      Api(Str("c1"), Undefined, Str("c2"), Undefined),   \* three pages of 2/2/1
      Api(Str("c1"), Undefined, Str("c1"), Undefined),   \* the cursor repeats
      Api(Str(""), Undefined, Undefined, Undefined),     \* an empty-string cursor
      Api(Null, Undefined, Undefined, Undefined) }       \* cursorNext: null

ApiMessages == {Undefined, Str("boom")}
ApiErrorCodes == {Undefined, Str("Not Found")}

ResourceFailures ==
    {Rejected(m) : m \in TransportCauses}
    \cup {Http(st, FALSE, NoBody) : st \in {200, 500}}
    \cup {Http(500, TRUE, [NoBody EXCEPT !.message = m, !.error = e]) :
            m \in ApiMessages, e \in ApiErrorCodes}

(***************************************************************************)
(* Raw records of the Flex 2 API (types: part_003).  An optional object is *)
(* a record whose t says whether it is there: "undefined" (the field is    *)
(* absent), "null", or "object"; a field that is declared an object but    *)
(* holds a string has t = "string".                                        *)
(***************************************************************************)
\* PortalPrivacy, part_003:64-68
PortalPrivacy(isVisible, showContactDetails, showSocialProfiles) ==
    [t |-> "object", isVisible |-> isVisible, showContactDetails |-> showContactDetails,
     showSocialProfiles |-> showSocialProfiles]
NoPortalPrivacy == [PortalPrivacy(Undefined, Undefined, Undefined) EXCEPT !.t = "undefined"]
NullPortalPrivacy == [NoPortalPrivacy EXCEPT !.t = "null"]

\* string[] | undefined
Arr(items) == [t |-> "array", items |-> items]
NoArr == [t |-> "undefined", items |-> <<>>]

\* ApiProperties, part_003:84-87
Properties(sdg) == [t |-> "object", sdg |-> sdg]
NoProperties == [t |-> "undefined", sdg |-> NoArr]

\* SocialProfiles, part_003:49-54
SocialProfiles(linkedin, twitter, instagram, facebook) ==
    [t |-> "object", linkedin |-> linkedin, twitter |-> twitter, instagram |-> instagram,
     facebook |-> facebook]
NoSocialProfiles ==
    [SocialProfiles(Undefined, Undefined, Undefined, Undefined) EXCEPT !.t = "undefined"]

\* ApiMember.team, part_003:131-134
Team(id, name) == [t |-> "object", _id |-> id, name |-> name]
NoTeam == [Team(Undefined, Undefined) EXCEPT !.t = "undefined"]
NullTeam == [NoTeam EXCEPT !.t = "null"]
\* the team given by its identifier only, not embedded
TeamId == [NoTeam EXCEPT !.t = "string"]

\* ApiMember, part_003:98-135 (the fields the transformation layer reads)
ApiMember(id, name, image, portalPrivacy, team) ==
    [_id |-> id, name |-> name, email |-> Undefined, phone |-> Undefined, image |-> image,
     description |-> Undefined, company |-> Undefined, properties |-> NoProperties,
     tags |-> NoArr, createdAt |-> Undefined, portalPrivacy |-> portalPrivacy,
     socialProfiles |-> NoSocialProfiles, twitterHandle |-> Undefined,
     linkedin |-> Undefined, team |-> team]

\* ApiCompany, part_003:142-174 (the fields the transformation layer reads)
ApiCompany(id, name, image, portalPrivacy) ==
    [_id |-> id, name |-> name, startDate |-> Str("2020-01-01"), description |-> Undefined,
     image |-> image, url |-> Undefined, properties |-> NoProperties,
     portalPrivacy |-> portalPrivacy, socialProfiles |-> NoSocialProfiles,
     twitterHandle |-> Undefined]

(***************************************************************************)
(* Display entities (types: part_003:192-255) and what a synchronous       *)
(* function hands back: null, an entity, or the Error it threw.            *)
(***************************************************************************)
TransformedPrivacy(hideContactDetails, hidePublicProfiles) ==
    [hideContactDetails |-> hideContactDetails, hidePublicProfiles |-> hidePublicProfiles]

TeamMemberReference(name, slug) == [name |-> name, slug |-> slug]

NoTransformedMember ==
    [slug |-> Undefined, name |-> Undefined, email |-> Undefined, phone |-> Undefined,
     image |-> Undefined, priority |-> Undefined, tags |-> NoArr, created |-> Undefined,
     bio |-> Undefined, sdgs |-> <<>>, socialProfiles |-> NoSocialProfiles,
     privacy |-> TransformedPrivacy(FALSE, FALSE), teamName |-> Undefined,
     teamSlug |-> Undefined]

NoTransformedCompany ==
    [slug |-> Undefined, name |-> Undefined, created |-> Undefined, bio |-> Undefined,
     url |-> Undefined, image |-> Undefined, sdgs |-> <<>>, priority |-> Undefined,
     socialProfiles |-> NoSocialProfiles, privacy |-> TransformedPrivacy(FALSE, FALSE),
     teamMembers |-> <<>>]

\* `return v`, `return null` and `throw new Error(message)`; blank fills v
Returned(v) == [t |-> "object", error |-> "", v |-> v]
ReturnedNull(blank) == [t |-> "null", error |-> "", v |-> blank]
Threw(message, blank) == [t |-> "throw", error |-> message, v |-> blank]
NotCalled(blank) == [t |-> "none", error |-> "", v |-> blank]

\* import.meta.env, src/env.d.ts:5-7
Env(clientId, clientSecret, orgSlug) ==
    [OFFICERND_CLIENT_ID |-> clientId, OFFICERND_CLIENT_SECRET |-> clientSecret,
     OFFICERND_ORG_SLUG |-> orgSlug]

NoInput ==
    [kind |-> "", env |-> Env(Undefined, Undefined, Undefined), value |-> Undefined,
     portalPrivacy |-> NoPortalPrivacy,
     member |-> ApiMember(Undefined, Undefined, Undefined, NoPortalPrivacy, NoTeam),
     company |-> ApiCompany(Undefined, Undefined, Undefined, NoPortalPrivacy),
     members |-> <<>>, companies |-> <<>>]

NoOutput ==
    [config |-> NotCalled([clientId |-> "", clientSecret |-> "", orgSlug |-> ""]),
     value |-> Undefined,
     privacy |-> NotCalled(TransformedPrivacy(FALSE, FALSE)),
     member |-> NotCalled(NoTransformedMember),
     company |-> NotCalled(NoTransformedCompany),
     members |-> NotCalled(<<>>), companies |-> NotCalled(<<>>)]

(***************************************************************************)
(* State.                                                                  *)
(***************************************************************************)
VARIABLES
    now,            \* Date.now(), in ms since the process started
    cachedToken,    \* part_002:60
    tokenExpiresAt, \* part_002:61
    apiNext,        \* the API's pages: page key -> cursorNext of that page
    pc,             \* where each caller's async call is suspended
    op,             \* the exported function the caller is running
    config,         \* its ApiClientConfig argument
    callNow,        \* getAccessToken's local `now`
    token,          \* fetchMembers/fetchCompanies' local `token`
    request,        \* the fetch() the caller is awaiting
    cursor,         \* fetchAllPages' local `cursor`
    allResults,     \* fetchAllPages' local `allResults`
    lastResponse,   \* the response the caller's last fetch() got
    ret,            \* what the call returned or threw
    tokReqs,        \* token requests issued by the call's getAccessToken so far
    gets,           \* GET requests issued by the call so far
    wiped,          \* what the clearTokenCache that emptied the cache found in it:
                    \* "empty", "expired" or "valid" ("": the cache was written since)
    enteredOn,      \* `wiped` as the caller's suspended getAccessToken found it
    fn,             \* the synchronous function that was applied ("": none yet)
    input,          \* the environment and the arguments it is applied to
    output          \* what it returned or threw

vars ==
    <<now, cachedToken, tokenExpiresAt, apiNext, pc, op, config, callNow, token,
      request, cursor, allResults, lastResponse, ret, tokReqs, gets, wiped, enteredOn,
      fn, input, output>>

pureVars == <<fn, input, output>>

cacheVars == <<cachedToken, tokenExpiresAt>>
pageVars == <<cursor, allResults, gets>>

Configs == [clientId : {"id"}, clientSecret : {"secret"}, orgSlug : OrgSlugs]
NoConfig == [clientId |-> "", clientSecret |-> "", orgSlug |-> ""]

NoRequest == [method |-> "", url |-> NoUrl, auth |-> Undefined]
Post(url) == [method |-> "POST", url |-> url, auth |-> Undefined]
\* GET with `Authorization: Bearer ${token}`
Get(url, tok) == [method |-> "GET", url |-> url, auth |-> tok]

NoReturn == [kind |-> "none", token |-> Undefined, items |-> <<>>, error |-> NoError]
ReturnedToken(tok) == [NoReturn EXCEPT !.kind = "value", !.token = tok]
ReturnedItems(items) == [NoReturn EXCEPT !.kind = "value", !.items = items]
Thrown(e) == [NoReturn EXCEPT !.kind = "error", !.error = e]

InitClient ==
    /\ now = 0
    /\ cachedToken = Null
    /\ tokenExpiresAt = Num(0)
    /\ apiNext \in Apis
    /\ pc = [c \in Callers |-> "idle"]
    /\ op = [c \in Callers |-> ""]
    /\ config = [c \in Callers |-> NoConfig]
    /\ callNow = [c \in Callers |-> 0]
    /\ token = [c \in Callers |-> Undefined]
    /\ request = [c \in Callers |-> NoRequest]
    /\ cursor = [c \in Callers |-> Undefined]
    /\ allResults = [c \in Callers |-> <<>>]
    /\ lastResponse = [c \in Callers |-> NoResponse]
    /\ ret = [c \in Callers |-> NoReturn]
    /\ tokReqs = [c \in Callers |-> 0]
    /\ gets = [c \in Callers |-> 0]
    /\ wiped = ""
    /\ enteredOn = [c \in Callers |-> ""]

\* No synchronous function is applied in the client's specifications.
Init ==
    /\ InitClient
    /\ fn = ""
    /\ input = NoInput
    /\ output = NoOutput


(***************************************************************************)
(* Token manager.                                                          *)
(***************************************************************************)
\* A CacheValid that takes the buffer for seconds and scales it to ms.
CacheValid_BufferInSeconds(at) ==
    Truthy(cachedToken) /\ JsGT(tokenExpiresAt, Num(at + TOKEN_BUFFER_MS * MS_PER_SECOND))

\* part_002:76  cachedToken && tokenExpiresAt > now + 60000
CacheValid(at) ==
    Truthy(cachedToken) /\ JsGT(tokenExpiresAt, Num(at + TOKEN_BUFFER_MS))

\* An ExpiryOf that reads the clock when the answer arrives.
ExpiryOf_AtResponse(at, expiresIn) == JsAdd(Num(now), JsMul(expiresIn, Num(MS_PER_SECOND)))

\* part_002:142  now + tokenData.expires_in * 1000
ExpiryOf(at, expiresIn) == JsAdd(Num(at), JsMul(expiresIn, Num(MS_PER_SECOND)))

\* An AuthFailureMessage that looks at `error` before `error_description`.
AuthFailureMessage_ErrorFirst(r) ==
    IF r.json /\ Truthy(r.body.error)
    THEN Message("Authentication failed: ", r.body.error)
    ELSE IF r.json /\ Truthy(r.body.error_description)
    THEN Message("Authentication failed: ", r.body.error_description)
    ELSE Message("Authentication failed with status ", Num(r.status))

\* part_002:107-114  the message of a non-2xx token response
AuthFailureMessage(r) ==
    IF r.json /\ Truthy(r.body.error_description)
    THEN Message("Authentication failed: ", r.body.error_description)
    ELSE IF r.json /\ Truthy(r.body.error)
    THEN Message("Authentication failed: ", r.body.error)
    ELSE Message("Authentication failed with status ", Num(r.status))

\* part_002:89-138  the error getAccessToken throws on response r, NoError if none
TokenError(r) ==
    IF r.kind = "rejected"
    THEN ApiError(Message("Failed to connect to authentication server: ", Str(r.cause)),
                  Undefined, TokenUrl)
    ELSE IF ~Ok(r)
    THEN ApiError(AuthFailureMessage(r), Num(r.status), TokenUrl)
    ELSE IF ~r.json
    THEN ApiError(Message("Invalid response from authentication server: expected JSON",
                          Undefined), Num(r.status), TokenUrl)
    ELSE IF ~Truthy(r.body.access_token)
    THEN ApiError(Message("Invalid response from authentication server: missing access_token",
                          Undefined), Num(r.status), TokenUrl)
    ELSE NoError

\* getAccessToken resolves with tok: the exported call is over, a fetcher goes on
\* after its `await getAccessToken(config)`.
TokenResolved(c, o, tok) ==
    /\ pc' = [pc EXCEPT ![c] = IF o = "getAccessToken" THEN "done" ELSE "gotToken"]
    /\ token' = [token EXCEPT ![c] = IF o = "getAccessToken" THEN Undefined ELSE tok]
    /\ ret' = [ret EXCEPT ![c] = IF o = "getAccessToken" THEN ReturnedToken(tok) ELSE NoReturn]
    /\ request' = [request EXCEPT ![c] = NoRequest]
    /\ callNow' = [callNow EXCEPT ![c] = 0]

\* The call throws e: every local is gone, the caller sees e.
Throws(c, e) ==
    /\ pc' = [pc EXCEPT ![c] = "threw"]
    /\ ret' = [ret EXCEPT ![c] = Thrown(e)]
    /\ token' = [token EXCEPT ![c] = Undefined]
    /\ request' = [request EXCEPT ![c] = NoRequest]
    /\ callNow' = [callNow EXCEPT ![c] = 0]

\* part_002:73-97, with a call that finds a token request of another call in
\* flight waiting for that request's answer instead of issuing its own
getAccessTokenEnter_SingleFlight(c, o, cfg) ==
    /\ pc[c] = "idle"
    /\ op' = [op EXCEPT ![c] = o]
    /\ config' = [config EXCEPT ![c] = cfg]
    /\ IF CacheValid(now)
       THEN /\ TokenResolved(c, o, cachedToken)
            /\ tokReqs' = [tokReqs EXCEPT ![c] = 0]
       ELSE /\ pc' = [pc EXCEPT ![c] = "awaitToken"]
            /\ IF \E d \in Callers \ {c} : pc[d] = "awaitToken"
               THEN /\ tokReqs' = [tokReqs EXCEPT ![c] = 0]
                    /\ UNCHANGED request
               ELSE /\ tokReqs' = [tokReqs EXCEPT ![c] = 1]
                    /\ request' = [request EXCEPT ![c] = Post(TokenUrl)]
            /\ callNow' = [callNow EXCEPT ![c] = now]
            /\ UNCHANGED <<token, ret>>
    /\ enteredOn' = [enteredOn EXCEPT ![c] = wiped]
    /\ UNCHANGED <<now, cacheVars, apiNext, pureVars, pageVars, lastResponse, wiped>>

\* part_002:73-97  getAccessToken up to its first await, entered by call o of c
getAccessTokenEnter(c, o, cfg) ==
    /\ pc[c] = "idle"
    /\ op' = [op EXCEPT ![c] = o]
    /\ config' = [config EXCEPT ![c] = cfg]
    /\ IF CacheValid(now)
       THEN /\ TokenResolved(c, o, cachedToken)
            /\ tokReqs' = [tokReqs EXCEPT ![c] = 0]
       ELSE /\ pc' = [pc EXCEPT ![c] = "awaitToken"]
            /\ request' = [request EXCEPT ![c] = Post(TokenUrl)]
            /\ tokReqs' = [tokReqs EXCEPT ![c] = 1]
            /\ callNow' = [callNow EXCEPT ![c] = now]
            /\ UNCHANGED <<token, ret>>
    /\ enteredOn' = [enteredOn EXCEPT ![c] = wiped]
    /\ UNCHANGED <<now, cacheVars, apiNext, pureVars, pageVars, lastResponse, wiped>>

\* part_002:73  a direct call of the exported getAccessToken
getAccessToken(c, cfg) == getAccessTokenEnter(c, "getAccessToken", cfg)

\* part_002:98-145, with the cache written (141-142) before access_token is
\* tested (132-138)
getAccessTokenResume_CachesBeforeValidating(c, r) ==
    /\ pc[c] = "awaitToken"
    /\ lastResponse' = [lastResponse EXCEPT ![c] = r]
    /\ IF TokenError(r) # NoError
       THEN /\ Throws(c, TokenError(r))
            /\ IF r.kind = "http" /\ Ok(r) /\ r.json
               THEN /\ cachedToken' = r.body.access_token
                    /\ tokenExpiresAt' = ExpiryOf(callNow[c], r.body.expires_in)
               ELSE UNCHANGED cacheVars
            /\ UNCHANGED wiped
       ELSE /\ cachedToken' = r.body.access_token
            /\ tokenExpiresAt' = ExpiryOf(callNow[c], r.body.expires_in)
            /\ TokenResolved(c, op[c], r.body.access_token)
            /\ wiped' = ""
    /\ enteredOn' = [enteredOn EXCEPT ![c] = ""]
    /\ UNCHANGED <<now, apiNext, pureVars, op, config, pageVars, tokReqs>>

\* part_002:98-145, with line 142 never moving a cached expiry back
getAccessTokenResume_KeepsLaterExpiry(c, r) ==
    /\ pc[c] = "awaitToken"
    /\ lastResponse' = [lastResponse EXCEPT ![c] = r]
    /\ IF TokenError(r) # NoError
       THEN /\ Throws(c, TokenError(r))
            /\ UNCHANGED <<cacheVars, wiped>>
       ELSE /\ cachedToken' = r.body.access_token
            /\ tokenExpiresAt' =
                  IF JsGT(tokenExpiresAt, ExpiryOf(callNow[c], r.body.expires_in))
                  THEN tokenExpiresAt
                  ELSE ExpiryOf(callNow[c], r.body.expires_in)
            /\ TokenResolved(c, op[c], r.body.access_token)
            /\ wiped' = ""
    /\ enteredOn' = [enteredOn EXCEPT ![c] = ""]
    /\ UNCHANGED <<now, apiNext, pureVars, op, config, pageVars, tokReqs>>

\* part_002:98-145  getAccessToken from the token endpoint's answer on
getAccessTokenResume(c, r) ==
    /\ pc[c] = "awaitToken"
    /\ lastResponse' = [lastResponse EXCEPT ![c] = r]
    /\ IF TokenError(r) # NoError
       THEN /\ Throws(c, TokenError(r))
            /\ UNCHANGED <<cacheVars, wiped>>
       ELSE /\ cachedToken' = r.body.access_token
            /\ tokenExpiresAt' = ExpiryOf(callNow[c], r.body.expires_in)
            /\ TokenResolved(c, op[c], r.body.access_token)
            /\ wiped' = ""
    /\ enteredOn' = [enteredOn EXCEPT ![c] = ""]
    /\ UNCHANGED <<now, apiNext, pureVars, op, config, pageVars, tokReqs>>

\* The cache as a clearTokenCache finds it: empty, or holding a token whose
\* expiry is more than 60 s away (valid) or not (expired).
Found ==
    IF cachedToken = Null THEN "empty"
    ELSE IF tokenExpiresAt.t = "number" /\ tokenExpiresAt.n > now + 60000 THEN "valid"
    ELSE "expired"

\* A clearTokenCache that forgets the expiry.
clearTokenCache_KeepsExpiry ==
    /\ cachedToken' = Null
    /\ wiped' = IF wiped = "" THEN Found ELSE wiped
    /\ UNCHANGED <<now, tokenExpiresAt, apiNext, pureVars, pc, op, config, callNow, token, request,
                   pageVars, lastResponse, ret, tokReqs, enteredOn>>

\* part_002:150-153
clearTokenCache ==
    /\ cachedToken' = Null
    /\ tokenExpiresAt' = Num(0)
    /\ wiped' = IF wiped = "" THEN Found ELSE wiped
    /\ UNCHANGED <<now, apiNext, pureVars, pc, op, config, callNow, token, request, pageVars,
                   lastResponse, ret, tokReqs, enteredOn>>

(***************************************************************************)
(* Paginated fetcher.                                                      *)
(***************************************************************************)
\* part_002:189-196  the message of a non-2xx resource response
ApiFailureMessage(r) ==
    IF r.json /\ Truthy(r.body.message)
    THEN Message("API error: ", r.body.message)
    ELSE IF r.json /\ Truthy(r.body.error)
    THEN Message("API error: ", r.body.error)
    ELSE Message("API request failed with status ", Num(r.status))

\* A FetchError that lets a 2xx body that is not JSON pass as an empty page.
FetchError_AcceptsNonJson(endpoint, r) ==
    IF r.kind = "rejected"
    THEN ApiError(Message("Failed to connect to API: ", Str(r.cause)), Undefined, endpoint)
    ELSE IF ~Ok(r)
    THEN ApiError(ApiFailureMessage(r), Num(r.status), endpoint)
    ELSE NoError

\* part_002:167-212  the error authenticatedFetch throws on response r, NoError if none
FetchError(endpoint, r) ==
    IF r.kind = "rejected"
    THEN ApiError(Message("Failed to connect to API: ", Str(r.cause)), Undefined, endpoint)
    ELSE IF ~Ok(r)
    THEN ApiError(ApiFailureMessage(r), Num(r.status), endpoint)
    ELSE IF ~r.json
    THEN ApiError(Message("Invalid response from API: expected JSON", Undefined),
                  Num(r.status), endpoint)
    ELSE NoError

\* part_002:173-179  the request authenticatedFetch(endpoint, token) sends
authenticatedFetch(endpoint, tok) == Get(endpoint, tok)

\* part_002:231-233  cursor ? `${baseUrl}?$cursorNext=${cursor}` : baseUrl
PageUrl(baseUrl, cur) ==
    IF Truthy(cur) THEN Url(baseUrl.base, Str(TemplateString(cur))) ELSE baseUrl

\* A HasMore that stops at any falsy cursor.
HasMore_Truthy(cur) == Truthy(cur)

\* part_002:239  hasMore = cursor !== undefined
HasMore(cur) == cur # Undefined

\* A Resource of a fetchCompanies copied from fetchMembers and left unedited.
Resource_AlwaysMembers(o) == "members"

\* part_002:263, 282  the endpoint a fetcher builds
Resource(o) == IF o = "fetchMembers" THEN "members" ELSE "companies"
BaseUrl(c) == ResourceEndpoint(config[c].orgSlug, Resource(op[c]))

\* The API's answer to a GET: the page its query string names.
ServerPage(url) ==
    Http(200, TRUE,
         [NoBody EXCEPT !.results = PageResults(url.base[3], url.query),
                        !.cursorNext = apiNext[url.query]])

\* What the network can hand back to a GET of url: that page, or a failure.
ServerResponses(url) == {ServerPage(url)} \cup ResourceFailures

\* part_002:259-262  fetchMembers up to its first await
fetchMembers(c, cfg) == getAccessTokenEnter(c, "fetchMembers", cfg)

\* part_002:278-281  fetchCompanies up to its first await
fetchCompanies(c, cfg) == getAccessTokenEnter(c, "fetchCompanies", cfg)

\* part_002:263-265 (282-284), 226-235  the fetcher after its token: fetchAllPages
\* up to its first await
fetchAllPages(c) ==
    /\ pc[c] = "gotToken"
    /\ MaxPages >= 1
    /\ allResults' = [allResults EXCEPT ![c] = <<>>]
    /\ cursor' = [cursor EXCEPT ![c] = Undefined]
    /\ request' = [request EXCEPT ![c] = authenticatedFetch(PageUrl(BaseUrl(c), Undefined), token[c])]
    /\ gets' = [gets EXCEPT ![c] = 1]
    /\ pc' = [pc EXCEPT ![c] = "awaitPage"]
    /\ lastResponse' = [lastResponse EXCEPT ![c] = NoResponse]
    /\ tokReqs' = [tokReqs EXCEPT ![c] = 0]
    /\ enteredOn' = [enteredOn EXCEPT ![c] = ""]
    /\ UNCHANGED <<now, cacheVars, apiNext, pureVars, op, config, callNow, token, ret, wiped>>

\* part_002:230-242  one turn of the loop, from the answer to the GET it awaits to
\* the next GET, the return or the throw
fetchAllPagesResume(c, r) ==
    /\ pc[c] = "awaitPage"
    /\ lastResponse' = [lastResponse EXCEPT ![c] = r]
    /\ IF FetchError(request[c].url, r) # NoError
       THEN /\ Throws(c, FetchError(request[c].url, r))
            /\ allResults' = [allResults EXCEPT ![c] = <<>>]
            /\ cursor' = [cursor EXCEPT ![c] = Undefined]
            /\ UNCHANGED gets
       ELSE /\ allResults' = [allResults EXCEPT ![c] = @ \o r.body.results]
            /\ cursor' = [cursor EXCEPT ![c] = r.body.cursorNext]
            /\ IF HasMore(r.body.cursorNext)
               THEN /\ gets[c] < MaxPages
                    /\ request' = [request EXCEPT ![c] =
                          authenticatedFetch(PageUrl(BaseUrl(c), r.body.cursorNext), token[c])]
                    /\ gets' = [gets EXCEPT ![c] = @ + 1]
                    /\ UNCHANGED <<pc, ret, token, callNow>>
               ELSE /\ pc' = [pc EXCEPT ![c] = "done"]
                    /\ ret' = [ret EXCEPT ![c] = ReturnedItems(allResults[c] \o r.body.results)]
                    /\ request' = [request EXCEPT ![c] = NoRequest]
                    /\ token' = [token EXCEPT ![c] = Undefined]
                    /\ UNCHANGED <<gets, callNow>>
    /\ UNCHANGED <<now, cacheVars, apiNext, pureVars, op, config, tokReqs, wiped, enteredOn>>

(***************************************************************************)
(* The callers and the clock.                                              *)
(***************************************************************************)
\* The caller takes the result of its call and is free for the next one.
Return(c) ==
    /\ pc[c] \in {"done", "threw"}
    /\ pc' = [pc EXCEPT ![c] = "idle"]
    /\ op' = [op EXCEPT ![c] = ""]
    /\ config' = [config EXCEPT ![c] = NoConfig]
    /\ callNow' = [callNow EXCEPT ![c] = 0]
    /\ token' = [token EXCEPT ![c] = Undefined]
    /\ request' = [request EXCEPT ![c] = NoRequest]
    /\ cursor' = [cursor EXCEPT ![c] = Undefined]
    /\ allResults' = [allResults EXCEPT ![c] = <<>>]
    /\ lastResponse' = [lastResponse EXCEPT ![c] = NoResponse]
    /\ ret' = [ret EXCEPT ![c] = NoReturn]
    /\ tokReqs' = [tokReqs EXCEPT ![c] = 0]
    /\ gets' = [gets EXCEPT ![c] = 0]
    /\ enteredOn' = [enteredOn EXCEPT ![c] = ""]
    /\ UNCHANGED <<now, cacheVars, apiNext, pureVars, wiped>>

Tick ==
    /\ now < MaxTicks * TickMs
    /\ now' = now + TickMs
    /\ UNCHANGED <<cacheVars, apiNext, pureVars, pc, op, config, callNow, token, request, pageVars,
                   lastResponse, ret, tokReqs, wiped, enteredOn>>

\* The pipeline's caller runs any of the exported functions, one call at a time.
Next ==
    \/ Tick
    \/ clearTokenCache
    \/ \E c \in Pipeline, cfg \in Configs : getAccessToken(c, cfg)
    \/ \E c \in Pipeline, cfg \in Configs : fetchMembers(c, cfg)
    \/ \E c \in Pipeline, cfg \in Configs : fetchCompanies(c, cfg)
    \/ \E c \in Pipeline, r \in TokenResponses : getAccessTokenResume(c, r)
    \/ \E c \in Pipeline : fetchAllPages(c)
    \/ \E c \in Pipeline :
         /\ pc[c] = "awaitPage"
         /\ \E r \in ServerResponses(request[c].url) : fetchAllPagesResume(c, r)
    \/ \E c \in Pipeline : Return(c)

Spec == Init /\ [][Next]_vars

\* The token manager alone, under callers whose getAccessToken calls overlap.
InitToken == Init /\ apiNext = Api(Undefined, Undefined, Undefined, Undefined)

NextToken ==
    \/ Tick
    \/ clearTokenCache
    \/ \E c \in Callers, cfg \in Configs : getAccessToken(c, cfg)
    \/ \E c \in Callers, r \in CoreTokenResponses : getAccessTokenResume(c, r)
    \/ \E c \in Callers : Return(c)

SpecToken == InitToken /\ [][NextToken]_vars


(***************************************************************************)
(* Claims on the token manager, under SpecToken.                           *)
(***************************************************************************)
\* A step in which c enters getAccessToken.
Enters(c) == pc[c] = "idle" /\ pc'[c] # "idle"

\* C1: a getAccessToken call that starts while the cached expiry is more than
\* 60000 ms after the current time returns the cached token, a non-empty string
\* that an earlier call cached, and issues no token request.
C1_CacheHit ==
    [][\A c \in Callers :
         (Enters(c) /\ tokenExpiresAt.t = "number" /\ tokenExpiresAt.n > now + 60000)
         => /\ cachedToken.t = "string" /\ cachedToken.s # ""
            /\ tokReqs'[c] = 0
            /\ request'[c] = NoRequest
            /\ op'[c] = "getAccessToken" => (pc'[c] = "done" /\ ret'[c] = ReturnedToken(cachedToken))
            /\ op'[c] # "getAccessToken" => (pc'[c] = "gotToken" /\ token'[c] = cachedToken)
            /\ UNCHANGED <<cachedToken, tokenExpiresAt>>]_vars

\* C1's case: with no other call in progress, a getAccessToken call was served
\* the cached token without a token request.
C1_Witness ==
    \E c \in Callers :
        /\ pc[c] = "done" /\ op[c] = "getAccessToken" /\ tokReqs[c] = 0
        /\ ret[c] = ReturnedToken(cachedToken)
        /\ JsGT(tokenExpiresAt, Num(now + 60000))
        /\ \A d \in Callers \ {c} : pc[d] = "idle"

\* C2: a getAccessToken call that starts with no cached token, or with a cached
\* expiry 60000 ms or less after the current time, issues one client-credentials
\* request and no second one; when it succeeds it returns the token of the answer
\* and leaves the cache holding that token, with the expiry
\* (time read at the start of the call) + expires_in * 1000.
C2_Refresh ==
    [][\A c \in Callers :
         /\ (Enters(c) /\ (cachedToken = Null
                           \/ (tokenExpiresAt.t = "number" /\ tokenExpiresAt.n <= now + 60000)))
            => /\ pc'[c] = "awaitToken"
               /\ request'[c] = Post(Url(<<"https://identity.officernd.com/oauth/token">>, Undefined))
               /\ tokReqs'[c] = 1
               /\ callNow'[c] = now
         /\ (pc[c] = "awaitToken" /\ pc'[c] # "awaitToken")
            => /\ tokReqs'[c] = 1
               /\ request'[c] = NoRequest
         /\ (pc[c] = "awaitToken" /\ pc'[c] \in {"done", "gotToken"})
            => LET b == lastResponse'[c].body IN
               /\ cachedToken' = b.access_token
               /\ pc'[c] = "done" => ret'[c] = ReturnedToken(b.access_token)
               /\ pc'[c] = "gotToken" => token'[c] = b.access_token
               /\ tokenExpiresAt' = IF b.expires_in.t = "number"
                                    THEN Num(callNow[c] + b.expires_in.n * 1000)
                                    ELSE NaN]_vars

\* C2's case: one call has refreshed the cache and returned the new token, and a
\* call that started with that token cached exactly 60 s from expiry is
\* refreshing it again.
C2_Witness ==
    \E c, d \in Callers :
        /\ pc[d] = "done" /\ tokReqs[d] = 1 /\ ret[d] = ReturnedToken(cachedToken)
        /\ lastResponse[d].body.expires_in = Num(60)
        /\ pc[c] = "awaitToken" /\ tokReqs[c] = 1
        /\ tokenExpiresAt = Num(callNow[c] + 60000)

\* C3: once clearTokenCache has run, whatever it found in the cache (nothing, a
\* valid or an expired token), there is no cached token and the expiry is 0 until
\* the cache is written again; and a getAccessToken call that starts then issues a
\* token request.
C3_ClearForcesRequest ==
    /\ wiped # "" => (cachedToken = Null /\ tokenExpiresAt = Num(0))
    /\ \A c \in Callers :
         enteredOn[c] # ""
         => (pc[c] = "awaitToken" /\ tokReqs[c] = 1 /\ request[c].method = "POST")

\* C3's case: at one instant, a token with more than 60 s to live was cleared and
\* the call that started next is asking the token endpoint.
C3_Witness ==
    \E c \in Callers :
        /\ enteredOn[c] = "valid" /\ pc[c] = "awaitToken" /\ tokReqs[c] = 1
        /\ now = 0 /\ callNow[c] = 0

\* C4: a token is returned from a 2xx answer only if its body holds a non-empty
\* access_token string and an integer expires_in.
C4_PayloadValidated ==
    \A c \in Callers :
        (tokReqs[c] = 1 /\ pc[c] \in {"done", "gotToken"})
        => /\ lastResponse[c].body.access_token.t = "string"
           /\ lastResponse[c].body.access_token.s # ""
           /\ lastResponse[c].body.expires_in.t = "number"


(***************************************************************************)
(* Claims on the paginated fetcher and the resource fetchers, under Spec.  *)
(***************************************************************************)
\* The pages the API chains from its first page by cursorNext, as page keys: the
\* page after one whose cursorNext is v is the page `?$cursorNext=v` names.  <<>>
\* when the chain does not end in a page without cursorNext.
RECURSIVE ChainFrom(_)
ChainFrom(keys) ==
    LET next == apiNext[keys[Len(keys)]] IN
    IF next = Undefined THEN keys
    ELSE IF next \notin PageKeys \/ \E i \in 1..Len(keys) : keys[i] = next THEN <<>>
    ELSE ChainFrom(Append(keys, next))

ApiChain == ChainFrom(<<Undefined>>)

RECURSIVE ChainItems(_, _)
ChainItems(resource, keys) ==
    IF keys = <<>> THEN <<>>
    ELSE PageResults(resource, Head(keys)) \o ChainItems(resource, Tail(keys))

Fetching(c) == op[c] \in {"fetchMembers", "fetchCompanies"}
ResourceOf(c) == IF op[c] = "fetchMembers" THEN "members" ELSE "companies"

\* The endpoint {base}/{orgSlug}/{resource} of c's run.
EndpointOf(c) ==
    <<"https://app.officernd.com/api/v2/organizations", config[c].orgSlug, ResourceOf(c)>>

\* A step in which c's fetchAllPages takes the answer to its GET.
TakesPage(c) == pc[c] = "awaitPage" /\ (pc'[c] # "awaitPage" \/ gets'[c] # gets[c])

\* A transport failure, a non-2xx status or a body that is not JSON.
Failed(r) == r.kind = "rejected" \/ r.status < 200 \/ r.status > 299 \/ ~r.json

\* C5: against an API that chains n >= 1 pages by cursorNext, the last one without
\* cursorNext, a run issues n GETs, never more, and returns the n pages' items
\* concatenated in order.
C5_AllPagesInOrder ==
    \A c \in Pipeline :
        (Fetching(c) /\ ApiChain # <<>>)
        => /\ gets[c] <= Len(ApiChain)
           /\ (pc[c] = "done"
               => /\ gets[c] = Len(ApiChain)
                  /\ ret[c] = ReturnedItems(ChainItems(ResourceOf(c), ApiChain)))

\* C6: the first GET of a run targets baseUrl unmodified, and every later one
\* targets baseUrl with $cursorNext set to the cursorNext of the answer before
\* it, whatever value that is.
C6_CursorChained ==
    \A c \in Pipeline :
        request[c].method = "GET"
        => request[c].url =
              IF gets[c] = 1 THEN Url(EndpointOf(c), Undefined)
              ELSE Url(EndpointOf(c), Str(TemplateString(lastResponse[c].body.cursorNext)))

\* C7: fetchAllPages returns right after a successful answer whose cursorNext is
\* undefined, with no request after it; after a successful answer that carries a
\* cursorNext it issues the next GET; so it never returns on an answer that
\* carries a cursorNext, however many pages it has fetched and whether the
\* cursor repeats or not.
C7_StopsOnlyOnUndefined ==
    /\ [](\A c \in Pipeline :
            (Fetching(c) /\ pc[c] = "done")
            => (~Failed(lastResponse[c]) /\ lastResponse[c].body.cursorNext = Undefined))
    /\ [][\A c \in Pipeline :
            (TakesPage(c) /\ ~Failed(lastResponse'[c]))
            => IF lastResponse'[c].body.cursorNext = Undefined
               THEN pc'[c] = "done" /\ request'[c] = NoRequest /\ gets'[c] = gets[c]
               ELSE pc'[c] = "awaitPage" /\ request'[c].method = "GET"
                    /\ gets'[c] = gets[c] + 1]_vars

\* C7's case: the API answers every GET with the same cursor, and the run has
\* fetched the same page again and is asking once more.
C7_Witness ==
    \E c \in Pipeline :
        /\ pc[c] = "awaitPage" /\ gets[c] = MaxPages
        /\ lastResponse[c].body.cursorNext = Str("c1")
        /\ request[c].url.query = Str("c1")
        /\ Len(allResults[c]) > 4

\* C8: when the answer to the k-th GET of a run is a failure, the run throws an
\* ApiError for that request, returns no item, and issues no request again:
\* neither the failed one nor a further one.
C8_NoPartialNoRetry ==
    [][\A c \in Pipeline :
         /\ (TakesPage(c) /\ Failed(lastResponse'[c]))
            => /\ pc'[c] = "threw"
               /\ ret'[c].kind = "error" /\ ret'[c].items = <<>>
               /\ ret'[c].error.name = "ApiError"
               /\ ret'[c].error.endpoint = request[c].url
               /\ request'[c] = NoRequest
               /\ gets'[c] = gets[c]
         /\ pc[c] = "threw"
            => (pc'[c] \in {"threw", "idle"} /\ request'[c] = NoRequest /\ gets'[c] <= gets[c])]_vars

\* C8's case: the third GET of a run failed after two pages had been taken, and
\* the caller holds an error and no item.
C8_Witness ==
    \E c \in Pipeline :
        /\ pc[c] = "threw" /\ gets[c] = 3 /\ Failed(lastResponse[c])
        /\ ret[c].kind = "error" /\ ret[c].items = <<>>
        /\ ret[c].error.endpoint.query = Str("c2")

\* C9: in a run of fetchMembers or fetchCompanies the first GET is issued by a
\* call that holds its token; a run whose token acquisition fails issues no GET;
\* every GET targets {base}/{orgSlug}/members (resp. /companies) and carries the
\* token the run obtained, whatever became of the cache since; and the run
\* returns the items of the pages it was served, appended in the order served.
C9_FetcherPassThrough ==
    /\ [](\A c \in Pipeline :
            /\ request[c].method = "GET"
               => /\ Fetching(c) /\ pc[c] = "awaitPage" /\ gets[c] >= 1
                  /\ request[c].url.base = EndpointOf(c)
                  /\ request[c].auth = token[c]
                  /\ token[c].t = "string" /\ token[c].s # ""
            /\ (Fetching(c) /\ pc[c] = "done") => ret[c] = ReturnedItems(allResults[c]))
    /\ [][\A c \in Pipeline :
            /\ (gets[c] = 0 /\ gets'[c] > 0)
               => (pc[c] = "gotToken" /\ gets'[c] = 1 /\ request'[c].auth = token[c])
            /\ (pc[c] = "awaitToken" /\ pc'[c] = "threw")
               => (gets'[c] = 0 /\ request'[c] = NoRequest)
            /\ (pc[c] = "awaitPage" /\ pc'[c] = "awaitPage") => token'[c] = token[c]
            /\ (TakesPage(c) /\ ~Failed(lastResponse'[c]))
               => /\ lastResponse'[c].body.results
                       = PageResults(ResourceOf(c), request[c].url.query)
                  /\ allResults'[c] = allResults[c] \o lastResponse'[c].body.results]_vars

\* C9's case: a fetchCompanies run for another organization returned the five
\* companies of three pages in order, although the token cache was cleared
\* while it ran.
C9_Witness ==
    \E c \in Pipeline :
        /\ pc[c] = "done" /\ op[c] = "fetchCompanies" /\ config[c].orgSlug = "other"
        /\ ret[c] = ReturnedItems(<<11, 12, 13, 14, 15>>)
        /\ gets[c] = 3
        /\ cachedToken = Null

NonEmptyString(v) == v.t = "string" /\ v.s # ""

\* C10: a transport failure raises an ApiError with the endpoint, no status code
\* and the failure's message; a non-2xx answer raises an ApiError with that status
\* and the endpoint, whose message is the server's text (error_description, else
\* error, at the token endpoint; message, else error, at a resource endpoint) and
\* the generic status message when the body is not JSON; a 2xx resource answer
\* that is not JSON raises an ApiError too.
C10_ErrorClassification ==
    [][\A c \in Pipeline :
         LET r == lastResponse'[c]
             e == ret'[c].error
             tokenUrl == Url(<<"https://identity.officernd.com/oauth/token">>, Undefined)
         IN
         /\ (pc[c] = "awaitToken" /\ pc'[c] # "awaitToken" /\ r.kind = "rejected")
            => /\ pc'[c] = "threw" /\ ret'[c].kind = "error"
               /\ e = ApiError(Message("Failed to connect to authentication server: ",
                                       Str(r.cause)), Undefined, tokenUrl)
         /\ (pc[c] = "awaitToken" /\ pc'[c] # "awaitToken" /\ r.kind = "http"
             /\ (r.status < 200 \/ r.status > 299))
            => /\ pc'[c] = "threw" /\ ret'[c].kind = "error"
               /\ e.name = "ApiError" /\ e.statusCode = Num(r.status) /\ e.endpoint = tokenUrl
               /\ (r.json /\ NonEmptyString(r.body.error_description))
                  => e.message = Message("Authentication failed: ", r.body.error_description)
               /\ (r.json /\ ~NonEmptyString(r.body.error_description)
                   /\ NonEmptyString(r.body.error))
                  => e.message = Message("Authentication failed: ", r.body.error)
               /\ ~r.json
                  => e.message = Message("Authentication failed with status ", Num(r.status))
         /\ (TakesPage(c) /\ r.kind = "rejected")
            => /\ pc'[c] = "threw" /\ ret'[c].kind = "error"
               /\ e = ApiError(Message("Failed to connect to API: ", Str(r.cause)),
                               Undefined, request[c].url)
         /\ (TakesPage(c) /\ r.kind = "http" /\ (r.status < 200 \/ r.status > 299))
            => /\ pc'[c] = "threw" /\ ret'[c].kind = "error"
               /\ e.name = "ApiError" /\ e.statusCode = Num(r.status)
               /\ e.endpoint = request[c].url
               /\ (r.json /\ NonEmptyString(r.body.message))
                  => e.message = Message("API error: ", r.body.message)
               /\ (r.json /\ ~NonEmptyString(r.body.message) /\ NonEmptyString(r.body.error))
                  => e.message = Message("API error: ", r.body.error)
               /\ ~r.json
                  => e.message = Message("API request failed with status ", Num(r.status))
         /\ (TakesPage(c) /\ r.kind = "http" /\ r.status >= 200 /\ r.status <= 299 /\ ~r.json)
            => /\ pc'[c] = "threw" /\ ret'[c].kind = "error"
               /\ e = ApiError(Message("Invalid response from API: expected JSON", Undefined),
                               Num(r.status), request[c].url)]_vars

\* C10's case: the token endpoint answered 401 with both an error_description and
\* an error, and the caller holds an ApiError that carries the description.
C10_Witness ==
    \E c \in Pipeline :
        /\ pc[c] = "threw" /\ gets[c] = 0
        /\ lastResponse[c].status = 401 /\ lastResponse[c].json
        /\ lastResponse[c].body.error_description = Str("bad secret")
        /\ lastResponse[c].body.error = Str("invalid_client")
        /\ ret[c].error.statusCode = Num(401)
        /\ ret[c].error.message = Message("Authentication failed: ", Str("bad secret"))


(***************************************************************************)
(* The synchronous functions.  Each is an operator from its arguments to   *)
(* what it returns or throws; strings are taken character by character.    *)
(***************************************************************************)
\* longest name and longest image URL (in pieces) the functions are applied to
MaxNameLen == 4
MaxUrlPieces == 3
\* longest raw member list and raw company list
MaxMembers == 3
MaxCompanies == 2

\* String.prototype.startsWith
StartsWith(str, prefix) ==
    Len(str) >= Len(prefix) /\ SubSeq(str, 1, Len(prefix)) = prefix

\* the first position from i on where piece occurs in str, 0 if there is none
RECURSIVE IndexFrom(_, _, _)
IndexFrom(str, piece, i) ==
    IF i + Len(piece) - 1 > Len(str) THEN 0
    ELSE IF SubSeq(str, i, i + Len(piece) - 1) = piece THEN i
    ELSE IndexFrom(str, piece, i + 1)

\* Array.prototype.join
RECURSIVE Join(_, _)
Join(items, separator) ==
    IF items = <<>> THEN ""
    ELSE IF Len(items) = 1 THEN items[1]
    ELSE items[1] \o separator \o Join(Tail(items), separator)

\* part_002:297-314, reporting only the first missing variable
getConfigFromEnv_FirstOnly(env) ==
    LET names == <<"OFFICERND_CLIENT_ID", "OFFICERND_CLIENT_SECRET", "OFFICERND_ORG_SLUG">>
        missing == SelectSeq(names, LAMBDA name : ~Truthy(env[name]))
        blank == [clientId |-> "", clientSecret |-> "", orgSlug |-> ""]
    IN  IF Len(missing) > 0
        THEN Threw("Missing required environment variables: " \o missing[1], blank)
        ELSE Returned([clientId |-> env.OFFICERND_CLIENT_ID.s,
                       clientSecret |-> env.OFFICERND_CLIENT_SECRET.s,
                       orgSlug |-> env.OFFICERND_ORG_SLUG.s])

\* part_002:297-314
getConfigFromEnv(env) ==
    LET names == <<"OFFICERND_CLIENT_ID", "OFFICERND_CLIENT_SECRET", "OFFICERND_ORG_SLUG">>
        missing == SelectSeq(names, LAMBDA name : ~Truthy(env[name]))
        blank == [clientId |-> "", clientSecret |-> "", orgSlug |-> ""]
    IN  IF Len(missing) > 0
        THEN Threw("Missing required environment variables: " \o Join(missing, ", "), blank)
        ELSE Returned([clientId |-> env.OFFICERND_CLIENT_ID.s,
                       clientSecret |-> env.OFFICERND_CLIENT_SECRET.s,
                       orgSlug |-> env.OFFICERND_ORG_SLUG.s])

(***************************************************************************)
(* Slugs.  generateSlug hands the name to the npm package `slugify`, whose *)
(* code is not part of the repository's sources; slugify below is its      *)
(* documented algorithm on characters outside its transliteration table:   *)
(* a character equal to the replacement becomes a space, the characters of *)
(* `remove` are dropped, the result is trimmed, each run of white space    *)
(* becomes one replacement, and `lower` lower-cases.  It rejects a         *)
(* non-string argument.                                                    *)
(***************************************************************************)
Whitespace == {" ", "\t", "\n"}
AsciiUpper == "ABCDEFGHIJKLMNOPQRSTUVWXYZ"
AsciiLower == "abcdefghijklmnopqrstuvwxyz"
Replacement == "-"

LowerChar(ch) ==
    LET i == IndexFrom(AsciiUpper, ch, 1)
    IN  IF i = 0 THEN ch ELSE SubSeq(AsciiLower, i, i)

\* String.prototype.toLowerCase
RECURSIVE toLowerCase(_)
toLowerCase(str) ==
    IF str = "" THEN "" ELSE LowerChar(SubSeq(str, 1, 1)) \o toLowerCase(Tail(str))

RECURSIVE TrimStart(_)
TrimStart(str) ==
    IF str # "" /\ SubSeq(str, 1, 1) \in Whitespace THEN TrimStart(Tail(str)) ELSE str

RECURSIVE TrimEnd(_)
TrimEnd(str) ==
    IF str # "" /\ SubSeq(str, Len(str), Len(str)) \in Whitespace
    THEN TrimEnd(SubSeq(str, 1, Len(str) - 1))
    ELSE str

\* str.replace(/\s+/g, replacement)
RECURSIVE ReplaceWhitespaceRuns(_, _)
ReplaceWhitespaceRuns(str, replacement) ==
    IF str = "" THEN ""
    ELSE IF SubSeq(str, 1, 1) \in Whitespace
         THEN replacement \o ReplaceWhitespaceRuns(TrimStart(str), replacement)
         ELSE SubSeq(str, 1, 1) \o ReplaceWhitespaceRuns(Tail(str), replacement)

\* every character of `remove` dropped from str
RECURSIVE RemoveChars(_, _)
RemoveChars(str, remove) ==
    IF str = "" THEN ""
    ELSE (IF SubSeq(str, 1, 1) \in remove THEN "" ELSE SubSeq(str, 1, 1))
         \o RemoveChars(Tail(str), remove)

\* slugify's pass over the characters
RECURSIVE SlugChars(_, _)
SlugChars(str, remove) ==
    IF str = "" THEN ""
    ELSE LET ch == SubSeq(str, 1, 1)
             appendChar == IF ch = Replacement THEN " " ELSE ch
         IN  RemoveChars(appendChar, remove) \o SlugChars(Tail(str), remove)

slugify(string, options) ==
    IF string.t # "string" THEN Throw("slugify: string argument expected")
    ELSE LET slug == ReplaceWhitespaceRuns(
                         TrimEnd(TrimStart(SlugChars(string.s, options.remove))),
                         Replacement)
         IN  Str(IF options.lower THEN toLowerCase(slug) ELSE slug)

\* transform.ts:49-52
SLUGIFY_OPTIONS ==
    [lower |-> TRUE,
     remove |-> {"*", "+", "~", ".", "(", ")", "/", "'", "\"", "?", "!", ":", "@"}]

\* transform.ts:126-128, with the characters removed from slugify's result instead
\* of by slugify
generateSlug_RemoveAfter(name) ==
    LET slug == slugify(name, [SLUGIFY_OPTIONS EXCEPT !.remove = {}])
    IN  IF slug.t = "throw" THEN slug ELSE Str(RemoveChars(slug.s, SLUGIFY_OPTIONS.remove))

\* transform.ts:126-128
generateSlug(name) == slugify(name, SLUGIFY_OPTIONS)

(***************************************************************************)
(* Images.                                                                 *)
(***************************************************************************)
\* transform.ts:33-34, 39, 44
DEFAULT_IMAGE_URL ==
    "https://cdn.prod.website-files.com/633d71ff5625100570e7e68c/68f8d711d95a532bded7c6c3_default.png"
IMAGEKIT_BASE_URL == "https://ik.imagekit.io/socentral/"
IMAGEKIT_TRANSFORM == "?tr=h-640"

\* the literal of the pattern at transform.ts:79
LegacyHost == "cloudfront.net/"
\* what `.` does not match
LineTerminators == {"\n", "\r"}

\* the last position where LegacyHost occurs in the first line of str, 0 if none:
\* where the greedy /^.*cloudfront\.net\// ends its `.*`
RECURSIVE LastHostFrom(_, _, _)
LastHostFrom(str, i, found) ==
    IF i + Len(LegacyHost) - 1 > Len(str) THEN found
    ELSE IF SubSeq(str, i, i) \in LineTerminators THEN found
    ELSE LastHostFrom(str, i + 1,
                      IF SubSeq(str, i, i + Len(LegacyHost) - 1) = LegacyHost THEN i ELSE found)

\* imageUrl.replace(/^.*cloudfront\.net\//, "")
CleanPath(str) ==
    LET at == LastHostFrom(str, 1, 0)
    IN  IF at = 0 THEN str ELSE SubSeq(str, at + Len(LegacyHost), Len(str))

\* transform.ts:73-82, with `=== null` for `== null`
transformImageUrl_StrictNull(imageUrl) ==
    IF imageUrl.t = "null" THEN Str(DEFAULT_IMAGE_URL)
    ELSE IF imageUrl.t = "undefined"
         THEN Throw("Cannot read properties of undefined (reading 'replace')")
    ELSE IF imageUrl.t # "string" THEN Throw("imageUrl.replace is not a function")
    ELSE Str(IMAGEKIT_BASE_URL \o CleanPath(imageUrl.s) \o IMAGEKIT_TRANSFORM)

\* transform.ts:73-82
transformImageUrl(imageUrl) ==
    IF imageUrl.t \in {"null", "undefined"} THEN Str(DEFAULT_IMAGE_URL)
    ELSE IF imageUrl.t # "string" THEN Throw("imageUrl.replace is not a function")
    ELSE Str(IMAGEKIT_BASE_URL \o CleanPath(imageUrl.s) \o IMAGEKIT_TRANSFORM)

\* transform.ts:95-111, without the test for the avatar host at line 105
calculateImagePriority_ProtocolRelativeOnly(imageUrl) ==
    IF imageUrl.t # "string" THEN Num(3)
    ELSE IF StartsWith(imageUrl.s, "//") THEN Num(1)
    ELSE Num(2)

\* transform.ts:95-111
calculateImagePriority(imageUrl) ==
    IF imageUrl.t # "string" THEN Num(3)
    ELSE IF StartsWith(imageUrl.s, "//") \/ StartsWith(imageUrl.s, "http://pbs.twimg.com/")
         THEN Num(1)
    ELSE Num(2)

(***************************************************************************)
(* Privacy.                                                                *)
(***************************************************************************)
\* transform.ts:143-159, hiding whatever is not explicitly visible
isProfileHidden_UnlessVisible(portalPrivacy) ==
    IF portalPrivacy.t = "undefined" THEN False
    ELSE IF portalPrivacy.t = "null"
         THEN Throw("Cannot read properties of null (reading 'isVisible')")
    ELSE IF portalPrivacy.isVisible # True THEN True
    ELSE False

\* transform.ts:143-159
isProfileHidden(portalPrivacy) ==
    IF portalPrivacy.t = "undefined" THEN False
    ELSE IF portalPrivacy.t = "null"
         THEN Throw("Cannot read properties of null (reading 'isVisible')")
    ELSE IF portalPrivacy.isVisible = False THEN True
    ELSE False

\* transform.ts:170-186, with both flags read from showContactDetails
extractPrivacyOptions_OneFlag(portalPrivacy) ==
    IF portalPrivacy.t = "undefined" THEN Returned(TransformedPrivacy(FALSE, FALSE))
    ELSE IF portalPrivacy.t = "null"
         THEN Threw("Cannot read properties of null (reading 'showContactDetails')",
                    TransformedPrivacy(FALSE, FALSE))
    ELSE Returned(TransformedPrivacy(portalPrivacy.showContactDetails = False,
                                     portalPrivacy.showContactDetails = False))

\* transform.ts:170-186
extractPrivacyOptions(portalPrivacy) ==
    IF portalPrivacy.t = "undefined" THEN Returned(TransformedPrivacy(FALSE, FALSE))
    ELSE IF portalPrivacy.t = "null"
         THEN Threw("Cannot read properties of null (reading 'showContactDetails')",
                    TransformedPrivacy(FALSE, FALSE))
    ELSE Returned(TransformedPrivacy(portalPrivacy.showContactDetails = False,
                                     portalPrivacy.showSocialProfiles = False))

(***************************************************************************)
(* SDGs, social profiles, URLs.                                            *)
(***************************************************************************)
\* transform.ts:198-208
extractSDGs(properties) ==
    IF properties.t = "undefined" THEN Returned(<<>>)
    ELSE IF properties.t = "null"
         THEN Threw("Cannot read properties of null (reading 'sdg')", <<>>)
    ELSE IF properties.sdg.t = "array" /\ Len(properties.sdg.items) > 0
         THEN Returned(properties.sdg.items)
    ELSE Returned(<<>>)

\* a ?? b
Nullish(a, b) == IF a.t \in {"undefined", "null"} THEN b ELSE a

\* transform.ts:225-239, with the operands of ?? at lines 233-234 exchanged
normalizeSocialProfiles_LegacyFirst(socialProfiles, legacyTwitter, legacyLinkedin) ==
    LET given == socialProfiles.t \notin {"undefined", "null"}
    IN  SocialProfiles(
            Nullish(legacyLinkedin, IF given THEN socialProfiles.linkedin ELSE Undefined),
            Nullish(legacyTwitter, IF given THEN socialProfiles.twitter ELSE Undefined),
            IF given THEN socialProfiles.instagram ELSE Undefined,
            IF given THEN socialProfiles.facebook ELSE Undefined)

\* transform.ts:225-239
normalizeSocialProfiles(socialProfiles, legacyTwitter, legacyLinkedin) ==
    LET given == socialProfiles.t \notin {"undefined", "null"}
    IN  SocialProfiles(
            Nullish(IF given THEN socialProfiles.linkedin ELSE Undefined, legacyLinkedin),
            Nullish(IF given THEN socialProfiles.twitter ELSE Undefined, legacyTwitter),
            IF given THEN socialProfiles.instagram ELSE Undefined,
            IF given THEN socialProfiles.facebook ELSE Undefined)

\* transform.ts:251-261, without the test for a protocol at line 256
fixUrl_AlwaysPrefixed(url) ==
    IF ~Truthy(url) THEN Undefined
    ELSE IF url.t # "string" THEN Throw("url.startsWith is not a function")
    ELSE Str("//" \o url.s)

\* transform.ts:251-261
fixUrl(url) ==
    IF ~Truthy(url) THEN Undefined
    ELSE IF url.t # "string" THEN Throw("url.startsWith is not a function")
    ELSE IF StartsWith(url.s, "http") THEN url
    ELSE Str("//" \o url.s)

(***************************************************************************)
(* The transformation engine.  The first call that throws ends the         *)
(* function with its Error.                                                *)
(***************************************************************************)
\* the message of the first Error in a sequence of messages ("": nothing thrown)
FirstError(messages) ==
    LET thrown == SelectSeq(messages, LAMBDA m : m # "")
    IN  IF thrown = <<>> THEN "" ELSE thrown[1]
\* the message a value-returning call threw, "" if it returned
ErrorOf(v) == IF v.t = "throw" THEN v.s ELSE ""

\* transform.ts:280, with the test for a team left out
HasTeam_Always(team) == TRUE

\* member.team is truthy: an embedded object, or a non-empty identifier string
HasTeam(team) == team.t \in {"object", "string"}
\* member.team.name and member.team?._id (a string has neither property)
TeamName(team) == IF team.t = "object" THEN team.name ELSE Undefined
TeamIdentity(team) == IF team.t = "object" THEN team._id ELSE Undefined

\* transform.ts:273-313
transformMember(member) ==
    LET hidden == isProfileHidden(member.portalPrivacy)
        slug == generateSlug(member.name)
        teamSlug == generateSlug(TeamName(member.team))
        image == transformImageUrl(member.image)
        priority == calculateImagePriority(member.image)
        privacy == extractPrivacyOptions(member.portalPrivacy)
        sdgs == extractSDGs(member.properties)
        socialProfiles ==
            normalizeSocialProfiles(member.socialProfiles, member.twitterHandle,
                                    member.linkedin)
        thrown == FirstError(<<ErrorOf(slug), ErrorOf(teamSlug), ErrorOf(image),
                               privacy.error, sdgs.error>>)
    IN  IF hidden.t = "throw" THEN Threw(hidden.s, NoTransformedMember)
        ELSE IF hidden = True THEN ReturnedNull(NoTransformedMember)
        ELSE IF ~HasTeam(member.team) THEN ReturnedNull(NoTransformedMember)
        ELSE IF thrown # "" THEN Threw(thrown, NoTransformedMember)
        ELSE Returned([slug |-> slug, name |-> member.name, email |-> member.email,
                       phone |-> member.phone, image |-> image, priority |-> priority,
                       tags |-> member.tags, created |-> member.createdAt,
                       bio |-> member.description, sdgs |-> sdgs.v,
                       socialProfiles |-> socialProfiles, privacy |-> privacy.v,
                       teamName |-> TeamName(member.team), teamSlug |-> teamSlug])

\* transform.ts:343-357, without the test that skips hidden members
RECURSIVE TeamMembersFrom_IncludesHidden(_, _, _, _)
TeamMembersFrom_IncludesHidden(company, members, i, teamMembers) ==
    IF i > Len(members) THEN Returned(teamMembers)
    ELSE LET member == members[i]
             slug == generateSlug(member.name)
         IN  IF TeamIdentity(member.team) = company._id
             THEN IF slug.t = "throw" THEN Threw(slug.s, <<>>)
                  ELSE TeamMembersFrom_IncludesHidden(company, members, i + 1,
                           Append(teamMembers, TeamMemberReference(member.name, slug)))
             ELSE TeamMembersFrom_IncludesHidden(company, members, i + 1, teamMembers)

\* transform.ts:343-357, with a member's `company` field also counting as membership
RECURSIVE TeamMembersFrom_ByCompanyField(_, _, _, _)
TeamMembersFrom_ByCompanyField(company, members, i, teamMembers) ==
    IF i > Len(members) THEN Returned(teamMembers)
    ELSE LET member == members[i]
             hidden == isProfileHidden(member.portalPrivacy)
             slug == generateSlug(member.name)
         IN  IF hidden.t = "throw" THEN Threw(hidden.s, <<>>)
             ELSE IF hidden = True
                  THEN TeamMembersFrom_ByCompanyField(company, members, i + 1, teamMembers)
             ELSE IF TeamIdentity(member.team) = company._id \/ member.company = company._id
                  THEN IF slug.t = "throw" THEN Threw(slug.s, <<>>)
                       ELSE TeamMembersFrom_ByCompanyField(company, members, i + 1,
                                Append(teamMembers, TeamMemberReference(member.name, slug)))
             ELSE TeamMembersFrom_ByCompanyField(company, members, i + 1, teamMembers)

\* transform.ts:343-357  the loop over `members` from its i-th item on
RECURSIVE TeamMembersFrom(_, _, _, _)
TeamMembersFrom(company, members, i, teamMembers) ==
    IF i > Len(members) THEN Returned(teamMembers)
    ELSE LET member == members[i]
             hidden == isProfileHidden(member.portalPrivacy)
             slug == generateSlug(member.name)
         IN  IF hidden.t = "throw" THEN Threw(hidden.s, <<>>)
             ELSE IF hidden = True
                  THEN TeamMembersFrom(company, members, i + 1, teamMembers)
             ELSE IF TeamIdentity(member.team) = company._id
                  THEN IF slug.t = "throw" THEN Threw(slug.s, <<>>)
                       ELSE TeamMembersFrom(company, members, i + 1,
                                Append(teamMembers, TeamMemberReference(member.name, slug)))
             ELSE TeamMembersFrom(company, members, i + 1, teamMembers)

\* transform.ts:322-372
transformCompany(company, members) ==
    LET hidden == isProfileHidden(company.portalPrivacy)
        slug == generateSlug(company.name)
        image == transformImageUrl(company.image)
        priority == calculateImagePriority(company.image)
        privacy == extractPrivacyOptions(company.portalPrivacy)
        sdgs == extractSDGs(company.properties)
        socialProfiles ==
            normalizeSocialProfiles(company.socialProfiles, company.twitterHandle, Undefined)
        url == fixUrl(company.url)
        teamMembers == TeamMembersFrom(company, members, 1, <<>>)
        thrown == FirstError(<<ErrorOf(slug), ErrorOf(image), privacy.error, sdgs.error,
                               ErrorOf(url), teamMembers.error>>)
    IN  IF hidden.t = "throw" THEN Threw(hidden.s, NoTransformedCompany)
        ELSE IF hidden = True THEN ReturnedNull(NoTransformedCompany)
        ELSE IF thrown # "" THEN Threw(thrown, NoTransformedCompany)
        ELSE Returned([slug |-> slug, name |-> company.name, created |-> company.startDate,
                       bio |-> company.description, url |-> url, image |-> image,
                       sdgs |-> sdgs.v, priority |-> priority,
                       socialProfiles |-> socialProfiles, privacy |-> privacy.v,
                       teamMembers |-> teamMembers.v])

\* transform.ts:384-395, with unshift for push
RECURSIVE transformAllMembersFrom_Unshift(_, _, _)
transformAllMembersFrom_Unshift(members, i, result) ==
    IF i > Len(members) THEN Returned(result)
    ELSE LET transformed == transformMember(members[i])
         IN  IF transformed.t = "throw" THEN Threw(transformed.error, <<>>)
             ELSE transformAllMembersFrom_Unshift(members, i + 1,
                      IF transformed.t # "null" THEN <<transformed.v>> \o result ELSE result)

\* transform.ts:385-394  the loop over `members` from its i-th item on
RECURSIVE transformAllMembersFrom(_, _, _)
transformAllMembersFrom(members, i, result) ==
    IF i > Len(members) THEN Returned(result)
    ELSE LET transformed == transformMember(members[i])
         IN  IF transformed.t = "throw" THEN Threw(transformed.error, <<>>)
             ELSE transformAllMembersFrom(members, i + 1,
                      IF transformed.t # "null" THEN Append(result, transformed.v) ELSE result)

\* transform.ts:384-395
transformAllMembers(members) == transformAllMembersFrom(members, 1, <<>>)

\* transform.ts:408-417  the loop over `companies` from its i-th item on
RECURSIVE transformAllCompaniesFrom(_, _, _, _)
transformAllCompaniesFrom(companies, members, i, result) ==
    IF i > Len(companies) THEN Returned(result)
    ELSE LET transformed == transformCompany(companies[i], members)
         IN  IF transformed.t = "throw" THEN Threw(transformed.error, <<>>)
             ELSE transformAllCompaniesFrom(companies, members, i + 1,
                      IF transformed.t # "null" THEN Append(result, transformed.v) ELSE result)

\* transform.ts:404-418
transformAllCompanies(companies, members) ==
    transformAllCompaniesFrom(companies, members, 1, <<>>)


(***************************************************************************)
(* What the synchronous functions are applied to.                          *)
(***************************************************************************)
\* all strings of at most n characters of `chars` (pieces, for an image URL)
RECURSIVE StringsOf(_, _)
StringsOf(chars, n) ==
    IF n = 0 THEN {""}
    ELSE LET shorter == StringsOf(chars, n - 1)
         IN  shorter \cup {str \o ch : str \in shorter, ch \in chars}

\* all sequences of at most n items of `items`
RECURSIVE ListsOf(_, _)
ListsOf(items, n) ==
    IF n = 0 THEN {<<>>}
    ELSE LET shorter == ListsOf(items, n - 1)
         IN  shorter \cup {Append(list, item) : list \in shorter, item \in items}

Envs ==
    {Env(clientId, clientSecret, orgSlug) :
        clientId \in {Undefined, Str(""), Str("id")},
        clientSecret \in {Undefined, Str(""), Str("secret")},
        orgSlug \in {Undefined, Str("")} \cup {Str(o) : o \in OrgSlugs}}

\* a value that is not of the declared type
NotAString == Num(42)

NameChars == {"S", "o", " ", "-", "."}
Names == {Str(str) : str \in StringsOf(NameChars, MaxNameLen)} \cup {Undefined, Null, NotAString}

UrlPieces == {"https://d1.", LegacyHost, "a/", "b.jpg", "//", "http://pbs.twimg.com/"}
Images ==
    {Str(str) : str \in StringsOf(UrlPieces, MaxUrlPieces)} \cup {Undefined, Null, NotAString}

\* website addresses, in pieces: with and without a protocol, protocol-relative
UrlParts == {"http", "s://", "example.com", "//"}
Urls == {Str(str) : str \in StringsOf(UrlParts, MaxUrlPieces)} \cup {Undefined, Null, NotAString}

Flags == {Undefined, True, False, Null}
PortalPrivacies ==
    {PortalPrivacy(v, c, s) : v \in Flags, c \in Flags, s \in Flags}
    \cup {NoPortalPrivacy, NullPortalPrivacy}

LegacyImage == Str("https://d1.cloudfront.net/a/b.jpg")
Teams ==
    {NoTeam, NullTeam, TeamId, Team(Str("c1"), Str("SoCentral AS")),
     Team(Str("c2"), Str("Other Co.")), Team(Str("c1"), Undefined)}

\* raw members one at a time: well-formed ones, and ones with a missing name, a
\* missing team name, a team given by identifier, a non-string image, a null privacy
Members ==
    {[ApiMember(Str("m1"), name, image, portalPrivacy, team) EXCEPT !.company = company] :
        name \in {Str("Ada Lovelace"), Str("Bo"), Undefined},
        image \in {Undefined, Null, LegacyImage, NotAString},
        portalPrivacy \in
            {PortalPrivacy(v, c, s) :
                v \in {Undefined, True, False}, c \in {Undefined, False},
                s \in {Undefined, False}}
            \cup {NoPortalPrivacy, NullPortalPrivacy},
        team \in Teams,
        company \in {Undefined, Str("c1")}}

Hidden == PortalPrivacy(False, Undefined, Undefined)

\* structured social-profile maps: none, and maps with each handle given or not
\* (twitter also null and empty)
SocialMaps ==
    {SocialProfiles(linkedin, twitter, instagram, facebook) :
        linkedin \in {Undefined, Str("in/new")},
        twitter \in {Undefined, Null, Str(""), Str("@new")},
        instagram \in {Undefined, Str("ig")},
        facebook \in {Undefined, Str("fb")}}
    \cup {NoSocialProfiles}
\* raw members and companies with structured and legacy social handles
SocialMembers ==
    {[ApiMember(Str("m1"), Str("Ada Lovelace"), Undefined, NoPortalPrivacy,
                Team(Str("c1"), Str("SoCentral AS")))
        EXCEPT !.socialProfiles = socialProfiles, !.twitterHandle = twitterHandle,
               !.linkedin = linkedin] :
        socialProfiles \in SocialMaps,
        twitterHandle \in {Undefined, Str("@old")},
        linkedin \in {Undefined, Str("in/old")}}
SocialCompanies ==
    {[ApiCompany(Str("c1"), Str("SoCentral AS"), Undefined, NoPortalPrivacy)
        EXCEPT !.socialProfiles = socialProfiles, !.twitterHandle = twitterHandle] :
        socialProfiles \in SocialMaps,
        twitterHandle \in {Undefined, Str("@old")}}

\* raw members of a list: visible and hidden ones of company c1, one of c2, one
\* with the company's identifier but no embedded team, one without a name
ListMembers ==
    {ApiMember(Str("m1"), Str("Ada Lovelace"), Undefined, NoPortalPrivacy,
               Team(Str("c1"), Str("SoCentral AS"))),
     ApiMember(Str("m2"), Str("Bo"), Null, Hidden, Team(Str("c1"), Str("SoCentral AS"))),
     ApiMember(Str("m3"), Str("Cy"), LegacyImage, PortalPrivacy(True, False, Undefined),
               Team(Str("c2"), Str("Other Co."))),
     [ApiMember(Str("m4"), Str("Di"), Undefined, NoPortalPrivacy, NoTeam)
        EXCEPT !.company = Str("c1")],
     ApiMember(Str("m5"), Undefined, Undefined, NoPortalPrivacy,
               Team(Str("c1"), Str("SoCentral AS")))}
MemberLists == ListsOf(ListMembers, MaxMembers)

\* raw companies one at a time: well-formed ones, one without a name, one with a
\* non-string image
Companies ==
    {ApiCompany(id, shape[1], shape[2], portalPrivacy) :
        id \in {Str("c1"), Str("c2")},
        shape \in {<<Str("SoCentral AS"), Undefined>>, <<Str("SoCentral AS"), LegacyImage>>,
                   <<Undefined, Null>>, <<Str("SoCentral AS"), NotAString>>},
        portalPrivacy \in {NoPortalPrivacy, Hidden, PortalPrivacy(True, False, Undefined)}}

ListCompanies ==
    {ApiCompany(Str("c1"), Str("SoCentral AS"), Undefined, NoPortalPrivacy),
     ApiCompany(Str("c2"), Str("Other Co."), LegacyImage, Hidden),
     ApiCompany(Str("c3"), Str("Third"), Null, PortalPrivacy(Undefined, Undefined, False)),
     ApiCompany(Str("c4"), Str("Fourth"), NotAString, NoPortalPrivacy)}
CompanyLists == ListsOf(ListCompanies, MaxCompanies)
\* the member lists a company list is transformed with
RosterLists == ListsOf(ListMembers, 2)

Inputs ==
    {[NoInput EXCEPT !.kind = "env", !.env = e] : e \in Envs}
    \cup {[NoInput EXCEPT !.kind = "name", !.value = v] : v \in Names}
    \cup {[NoInput EXCEPT !.kind = "image", !.value = v] : v \in Images}
    \cup {[NoInput EXCEPT !.kind = "url", !.value = v] : v \in Urls}
    \cup {[NoInput EXCEPT !.kind = "portalPrivacy", !.portalPrivacy = p] :
            p \in PortalPrivacies}
    \cup {[NoInput EXCEPT !.kind = "member", !.member = m] : m \in Members \cup SocialMembers}
    \cup {[NoInput EXCEPT !.kind = "company", !.company = c] : c \in SocialCompanies}
    \cup {[NoInput EXCEPT !.kind = "company", !.company = c, !.members = l] :
            c \in Companies, l \in MemberLists}
    \cup {[NoInput EXCEPT !.kind = "members", !.members = l] : l \in MemberLists}
    \cup {[NoInput EXCEPT !.kind = "companies", !.companies = k, !.members = l] :
            k \in CompanyLists, l \in RosterLists}

(***************************************************************************)
(* The synchronous functions' specification: one function is applied to    *)
(* one input; the client is idle throughout.                               *)
(***************************************************************************)
clientVars ==
    <<now, cachedToken, tokenExpiresAt, apiNext, pc, op, config, callNow, token,
      request, cursor, allResults, lastResponse, ret, tokReqs, gets, wiped, enteredOn>>

InitPure ==
    /\ InitClient
    /\ apiNext = Api(Undefined, Undefined, Undefined, Undefined)
    /\ fn = ""
    /\ input \in Inputs
    /\ output = NoOutput

\* function f, which takes inputs of this kind, is called and hands back out
Apply(f, kind, out) ==
    /\ fn = ""
    /\ input.kind = kind
    /\ fn' = f
    /\ output' = out
    /\ UNCHANGED <<input, clientVars>>

NextPure ==
    \/ Apply("getConfigFromEnv", "env",
             [output EXCEPT !.config = getConfigFromEnv(input.env)])
    \/ Apply("generateSlug", "name", [output EXCEPT !.value = generateSlug(input.value)])
    \/ Apply("transformImageUrl", "image",
             [output EXCEPT !.value = transformImageUrl(input.value)])
    \/ Apply("calculateImagePriority", "image",
             [output EXCEPT !.value = calculateImagePriority(input.value)])
    \/ Apply("fixUrl", "url", [output EXCEPT !.value = fixUrl(input.value)])
    \/ Apply("isProfileHidden", "portalPrivacy",
             [output EXCEPT !.value = isProfileHidden(input.portalPrivacy)])
    \/ Apply("extractPrivacyOptions", "portalPrivacy",
             [output EXCEPT !.privacy = extractPrivacyOptions(input.portalPrivacy)])
    \/ Apply("transformMember", "member",
             [output EXCEPT !.member = transformMember(input.member)])
    \/ Apply("transformCompany", "company",
             [output EXCEPT !.company = transformCompany(input.company, input.members)])
    \/ Apply("transformAllMembers", "members",
             [output EXCEPT !.members = transformAllMembers(input.members)])
    \/ Apply("transformAllCompanies", "companies",
             [output EXCEPT !.companies =
                 transformAllCompanies(input.companies, input.members)])

SpecPure == InitPure /\ [][NextPure]_vars


(***************************************************************************)
(* Claims on the synchronous functions, under SpecPure.                    *)
(***************************************************************************)
\* an environment variable that is not set, or set to the empty string
Missing(v) == v \in {Undefined, Str("")}

\* C11: whenever the client identifier, the client secret or the organization slug is
\* missing, getConfigFromEnv throws one Error whose message names every missing
\* variable, in the order identifier, secret, slug, and no request has been sent; the
\* slug is among the validated variables.  With all three set it returns them.
C11_ConfigError ==
    fn = "getConfigFromEnv" =>
        LET env == input.env
            names ==
                (IF Missing(env.OFFICERND_CLIENT_ID) THEN <<"OFFICERND_CLIENT_ID">> ELSE <<>>)
                \o (IF Missing(env.OFFICERND_CLIENT_SECRET)
                    THEN <<"OFFICERND_CLIENT_SECRET">> ELSE <<>>)
                \o (IF Missing(env.OFFICERND_ORG_SLUG) THEN <<"OFFICERND_ORG_SLUG">> ELSE <<>>)
            listed ==
                CASE Len(names) = 1 -> names[1]
                  [] Len(names) = 2 -> names[1] \o ", " \o names[2]
                  [] Len(names) = 3 -> names[1] \o ", " \o names[2] \o ", " \o names[3]
                  [] OTHER -> ""
        IN  /\ names # <<>> =>
                /\ output.config.t = "throw"
                /\ output.config.error = "Missing required environment variables: " \o listed
            /\ names = <<>> =>
                /\ output.config.t = "object"
                /\ output.config.v.clientId = env.OFFICERND_CLIENT_ID.s
                /\ output.config.v.clientSecret = env.OFFICERND_CLIENT_SECRET.s
                /\ output.config.v.orgSlug = env.OFFICERND_ORG_SLUG.s
            /\ \A c \in Callers :
                request[c] = NoRequest /\ tokReqs[c] = 0 /\ gets[c] = 0

\* the secret is unset and the slug is empty: both are named, in one message
C11_Witness ==
    /\ fn = "getConfigFromEnv"
    /\ input.env = Env(Str("id"), Undefined, Str(""))
    /\ output.config.t = "throw"
    /\ output.config.error =
        "Missing required environment variables: OFFICERND_CLIENT_SECRET, OFFICERND_ORG_SLUG"

\* the record opted out of the directory: isVisible is exactly false
OptedOut(portalPrivacy) == portalPrivacy.t = "object" /\ portalPrivacy.isVisible = False

\* C12: isProfileHidden(p) is true iff p is defined and p.isVisible is exactly false;
\* transformMember and transformCompany return null for every raw record whose
\* isVisible is false; a record that did not opt out is not suppressed for privacy: a
\* company is never suppressed, a member only when it has no team.
C12_ExplicitOptOut ==
    /\ fn = "isProfileHidden" =>
        (output.value = True <=> OptedOut(input.portalPrivacy))
    /\ fn = "transformMember" =>
        /\ OptedOut(input.member.portalPrivacy) => output.member.t = "null"
        /\ (output.member.t = "null" /\ ~OptedOut(input.member.portalPrivacy))
            => input.member.team.t \in {"undefined", "null"}
    /\ fn = "transformCompany" =>
        (output.company.t = "null" <=> OptedOut(input.company.portalPrivacy))

\* a member with a team and an image opted out and is suppressed
C12_Witness ==
    /\ fn = "transformMember"
    /\ input.member.portalPrivacy = PortalPrivacy(False, Undefined, Undefined)
    /\ input.member.team = Team(Str("c1"), Str("SoCentral AS"))
    /\ input.member.name = Str("Ada Lovelace")
    /\ output.member.t = "null"

\* the record has the shape its type declares (part_003:98-135, 142-174)
WellFormedMember(m) ==
    /\ m.name.t = "string"
    /\ m.image.t \in {"undefined", "null", "string"}
    /\ m.portalPrivacy.t \in {"undefined", "object"}
    /\ m.team.t \in {"undefined", "null", "object"}
    /\ m.team.t = "object" => m.team.name.t = "string"
WellFormedCompany(c) ==
    /\ c.name.t = "string"
    /\ c.image.t \in {"undefined", "null", "string"}
    /\ c.portalPrivacy.t \in {"undefined", "object"}

Kept(list, Keep(_)) == {i \in 1..Len(list) : Keep(list[i])}
PlaceOf(kept, i) == Cardinality({j \in kept : j <= i})

\* the raw member belongs to the company's visible team
OnTeam(m, company) ==
    /\ ~OptedOut(m.portalPrivacy)
    /\ m.team.t = "object"
    /\ m.team._id = company._id

C15_OrderPreservingFilter ==
    /\ (/\ fn = "transformAllMembers"
        /\ \A i \in 1..Len(input.members) : WellFormedMember(input.members[i]))
       => LET L == input.members
              kept == Kept(L, LAMBDA m : transformMember(m).t # "null")
          IN  /\ output.members.t = "object"
              /\ Len(output.members.v) = Cardinality(kept)
              /\ Len(output.members.v) <= Len(L)
              /\ \A i \in kept :
                    output.members.v[PlaceOf(kept, i)] = transformMember(L[i]).v
    /\ (/\ fn = "transformAllCompanies"
        /\ \A i \in 1..Len(input.companies) : WellFormedCompany(input.companies[i])
        /\ \A i \in 1..Len(input.members) : WellFormedMember(input.members[i]))
       => LET L == input.companies
              kept == Kept(L, LAMBDA c : transformCompany(c, input.members).t # "null")
          IN  /\ output.companies.t = "object"
              /\ Len(output.companies.v) = Cardinality(kept)
              /\ Len(output.companies.v) <= Len(L)
              /\ \A i \in kept :
                    output.companies.v[PlaceOf(kept, i)] =
                        transformCompany(L[i], input.members).v

\* of three members the hidden one in the middle is dropped, the others keep their order
C15_Witness ==
    /\ fn = "transformAllMembers"
    /\ Len(input.members) = 3
    /\ input.members[1].name = Str("Cy")
    /\ input.members[2].portalPrivacy = Hidden
    /\ input.members[3].name = Str("Ada Lovelace")
    /\ output.members.t = "object"
    /\ Len(output.members.v) = 2
    /\ output.members.v[1].slug = Str("cy")
    /\ output.members.v[2].slug = Str("ada-lovelace")

\* C16: extractPrivacyOptions(undefined) is {hideContactDetails: false,
\* hidePublicProfiles: false}; for a privacy object hideContactDetails is true iff
\* showContactDetails is exactly false and hidePublicProfiles is true iff
\* showSocialProfiles is exactly false, each whatever the other flags are.
C16_PrivacyInversion ==
    fn = "extractPrivacyOptions" =>
        /\ input.portalPrivacy.t = "undefined" =>
            output.privacy = Returned(TransformedPrivacy(FALSE, FALSE))
        /\ input.portalPrivacy.t = "object" =>
            /\ output.privacy.t = "object"
            /\ output.privacy.v.hideContactDetails
                <=> input.portalPrivacy.showContactDetails = False
            /\ output.privacy.v.hidePublicProfiles
                <=> input.portalPrivacy.showSocialProfiles = False

\* contact details are hidden, social profiles explicitly shown, on a visible record
C16_Witness ==
    /\ fn = "extractPrivacyOptions"
    /\ input.portalPrivacy = PortalPrivacy(True, False, True)
    /\ output.privacy = Returned(TransformedPrivacy(TRUE, FALSE))

\* C17: for every raw member or company record, also a malformed or partial one
\* (missing name, missing team name, non-string image, null privacy), transformMember,
\* transformCompany and the batch transformers return null or a display entity (a
\* list of them) and never throw.
C17_NeverRaises ==
    /\ fn = "transformMember" => output.member.t \in {"null", "object"}
    /\ fn = "transformCompany" => output.company.t \in {"null", "object"}
    /\ fn = "transformAllMembers" => output.members.t = "object"
    /\ fn = "transformAllCompanies" => output.companies.t = "object"

\* the characters of str
CharsOf(str) == {SubSeq(str, i, i) : i \in 1..Len(str)}

\* C18: for every name x, generateSlug(generateSlug(x)) = generateSlug(x); the slug
\* is lower-case and holds none of the characters * + ~ . ( ) / ' " ? ! : @
C18_SlugIdempotent ==
    (fn = "generateSlug" /\ input.value.t = "string") =>
        /\ output.value.t = "string"
        /\ generateSlug(output.value) = output.value
        /\ CharsOf(output.value.s) \cap CharsOf("*+~.()/'\"?!:@") = {}
        /\ CharsOf(output.value.s) \cap CharsOf(AsciiUpper) = {}

\* a name with an upper-case letter, a removed character and a separator
C18_Witness ==
    /\ fn = "generateSlug"
    /\ input.value = Str("S.-o")
    /\ output.value = Str("s-o")

\* what follows the first occurrence of LegacyHost in str, str itself if there is none
AfterFirstHost(str) ==
    LET at == IndexFrom(str, LegacyHost, 1)
    IN  IF at = 0 THEN str ELSE SubSeq(str, at + Len(LegacyHost), Len(str))

\* C19: for every string, transformImageUrl drops everything up to and including the
\* first occurrence of 'cloudfront.net/' (keeping all that follows it, a later
\* occurrence too) and returns the CDN base + the rest + '?tr=h-640'; without the
\* marker the whole string is the path.
C19_StripsThroughFirstMarker ==
    (fn = "transformImageUrl" /\ input.value.t = "string") =>
        output.value =
            Str("https://ik.imagekit.io/socentral/" \o AfterFirstHost(input.value.s)
                \o "?tr=h-640")

\* C20: transformImageUrl(undefined) and transformImageUrl(null) are the default image
\* URL; the image of every display member and display company is a string, and it is
\* the default URL whenever the raw record's image is null or absent.
C20_DefaultImage ==
    /\ (fn = "transformImageUrl" /\ input.value \in {Undefined, Null}) =>
        output.value = Str(DEFAULT_IMAGE_URL)
    /\ (fn = "transformMember" /\ output.member.t = "object") =>
        /\ output.member.v.image.t = "string"
        /\ input.member.image \in {Undefined, Null} =>
            output.member.v.image = Str(DEFAULT_IMAGE_URL)
    /\ (fn = "transformCompany" /\ output.company.t = "object") =>
        /\ output.company.v.image.t = "string"
        /\ input.company.image \in {Undefined, Null} =>
            output.company.v.image = Str(DEFAULT_IMAGE_URL)
    /\ (fn = "transformAllMembers" /\ output.members.t = "object") =>
        \A i \in 1..Len(output.members.v) : output.members.v[i].image.t = "string"
    /\ (fn = "transformAllCompanies" /\ output.companies.t = "object") =>
        \A i \in 1..Len(output.companies.v) : output.companies.v[i].image.t = "string"

\* a display member made of a raw member without an image field
C20_Witness ==
    /\ fn = "transformMember"
    /\ input.member.image = Undefined
    /\ output.member.t = "object"
    /\ output.member.v.image =
        Str("https://cdn.prod.website-files.com/633d71ff5625100570e7e68c/68f8d711d95a532bded7c6c3_default.png")

(***************************************************************************)
(* C21  calculateImagePriority returns exactly one of 1, 2, 3 for every    *)
(* input: 1 for a string that starts with "//" or with the avatar host     *)
(* "http://pbs.twimg.com/", 2 for every other non-empty string, 3 for      *)
(* every value that is not a string; and a display member carries the      *)
(* priority of its raw image (3 when the record has no image).             *)
(***************************************************************************)
AvatarHost == "http://pbs.twimg.com/"
ProfileLike(str) ==
    \/ Len(str) >= 2 /\ SubSeq(str, 1, 2) = "//"
    \/ Len(str) >= Len(AvatarHost) /\ SubSeq(str, 1, Len(AvatarHost)) = AvatarHost

C21_ImagePriority ==
    /\ fn = "calculateImagePriority" =>
          LET imageUrl == input.value
              priority == output.value
          IN  /\ priority \in {Num(1), Num(2), Num(3)}
              /\ imageUrl.t = "string" /\ ProfileLike(imageUrl.s) => priority = Num(1)
              /\ imageUrl.t = "string" /\ imageUrl.s # "" /\ ~ProfileLike(imageUrl.s)
                    => priority = Num(2)
              /\ imageUrl.t # "string" => priority = Num(3)
    /\ fn = "transformMember" /\ output.member.t = "object" =>
          LET image == input.member.image
              priority == output.member.v.priority
          IN  /\ image = Undefined => priority = Num(3)
              /\ image.t = "string" /\ ~ProfileLike(image.s) /\ image.s # ""
                    => priority = Num(2)

\* the avatar host's image is rated 1
C21_Witness ==
    /\ fn = "calculateImagePriority"
    /\ input.value = Str(AvatarHost \o "b.jpg")
    /\ output.value = Num(1)

(***************************************************************************)
(* C22  fixUrl(undefined) is undefined; a string that begins with "http"   *)
(* is returned unchanged; every other string s, the empty string and a     *)
(* string that begins with "//" included, is returned as "//" + s.         *)
(***************************************************************************)
HasProtocol(str) == Len(str) >= 4 /\ SubSeq(str, 1, 4) = "http"

C22_EveryOtherStringPrefixed ==
    fn = "fixUrl" =>
        LET url == input.value
        IN  /\ url = Undefined => output.value = Undefined
            /\ url.t = "string" /\ HasProtocol(url.s) => output.value = url
            /\ url.t = "string" /\ ~HasProtocol(url.s) => output.value = Str("//" \o url.s)

\* C22 as the code has it: fixUrl(undefined) and fixUrl("") are undefined; a
\* string that begins with "http" is returned unchanged; every other non-empty
\* string s, one that begins with "//" included, is returned as "//" + s.
C22_FixUrl ==
    fn = "fixUrl" =>
        LET url == input.value
        IN  /\ url \in {Undefined, Str("")} => output.value = Undefined
            /\ url.t = "string" /\ HasProtocol(url.s) => output.value = url
            /\ url.t = "string" /\ url.s # "" /\ ~HasProtocol(url.s)
                  => output.value = Str("//" \o url.s)

\* a protocol-relative address is prefixed once more
C22_Witness ==
    /\ fn = "fixUrl"
    /\ input.value = Str("//example.com")
    /\ output.value = Str("////example.com")

(***************************************************************************)
(* C23  In a display member, twitter (linkedin) is the structured map's    *)
(* value when that value is present and the legacy twitterHandle           *)
(* (linkedin) field otherwise; instagram and facebook are the structured   *)
(* map's.  In a display company twitter falls back to the legacy           *)
(* twitterHandle, and linkedin is the structured value or absent.          *)
(***************************************************************************)
Present(v) == v.t \notin {"undefined", "null"}
\* the value the structured map gives for a handle (absent without a map)
Structured(socialProfiles, handle) ==
    IF socialProfiles.t = "object" THEN socialProfiles[handle] ELSE Undefined
Preferring(value, legacy) == IF Present(value) THEN value ELSE legacy

C23_SocialFallback ==
    /\ fn = "transformMember" /\ output.member.t = "object" =>
          LET raw == input.member
              socialProfiles == output.member.v.socialProfiles
          IN  /\ socialProfiles.twitter =
                    Preferring(Structured(raw.socialProfiles, "twitter"), raw.twitterHandle)
              /\ socialProfiles.linkedin =
                    Preferring(Structured(raw.socialProfiles, "linkedin"), raw.linkedin)
              /\ socialProfiles.instagram = Structured(raw.socialProfiles, "instagram")
              /\ socialProfiles.facebook = Structured(raw.socialProfiles, "facebook")
    /\ fn = "transformCompany" /\ output.company.t = "object" =>
          LET raw == input.company
              socialProfiles == output.company.v.socialProfiles
          IN  /\ socialProfiles.twitter =
                    Preferring(Structured(raw.socialProfiles, "twitter"), raw.twitterHandle)
              /\ socialProfiles.linkedin =
                    Preferring(Structured(raw.socialProfiles, "linkedin"), Undefined)
              /\ socialProfiles.instagram = Structured(raw.socialProfiles, "instagram")
              /\ socialProfiles.facebook = Structured(raw.socialProfiles, "facebook")

\* a member with both linkedin values and only a legacy twitter handle: the
\* structured linkedin wins, the legacy twitter handle fills in
C23_Witness ==
    /\ fn = "transformMember" /\ output.member.t = "object"
    /\ input.member.socialProfiles = SocialProfiles(Str("in/new"), Undefined, Undefined, Undefined)
    /\ input.member.twitterHandle = Str("@old") /\ input.member.linkedin = Str("in/old")
    /\ output.member.v.socialProfiles.linkedin = Str("in/new")
    /\ output.member.v.socialProfiles.twitter = Str("@old")

(***************************************************************************)
(* C24  The cache check and the cache write of getAccessToken are apart    *)
(* by its network await: a call that starts on an empty or expired cache   *)
(* while another call's token request is still unanswered issues a token   *)
(* request of its own, so that two requests are in flight for one validity *)
(* window; a call is served from the cache only when it starts with a      *)
(* token that an answered request has cached and that has not expired.     *)
(***************************************************************************)
\* the callers whose token request is unanswered
InFlight == {c \in Callers : request[c].method = "POST"}
\* no token cached, or one whose expiry is 60 s away or less
EmptyOrExpired ==
    \/ cachedToken = Null
    \/ tokenExpiresAt.t = "number" /\ tokenExpiresAt.n <= now + 60000

C24_OverlappingCallsEachRequest ==
    [][\A c \in Callers :
         /\ (Enters(c) /\ EmptyOrExpired /\ InFlight # {})
            => /\ pc'[c] = "awaitToken"
               /\ tokReqs'[c] = 1
               /\ request'[c].method = "POST" /\ request'[c].url = TokenUrl
               /\ InFlight' = InFlight \cup {c}
               /\ UNCHANGED <<cachedToken, tokenExpiresAt>>
         /\ (Enters(c) /\ pc'[c] # "awaitToken")
            => /\ cachedToken \in AccessTokens
               /\ tokenExpiresAt.t = "number" /\ tokenExpiresAt.n > now + 60000
               /\ tokReqs'[c] = 0
               /\ c \notin InFlight']_vars

\* two calls that started at the same time on an empty cache both have a token
\* request in flight
C24_Witness ==
    /\ cachedToken = Null
    /\ InFlight = Callers
    /\ \A c \in Callers : pc[c] = "awaitToken" /\ tokReqs[c] = 1 /\ callNow[c] = now

(***************************************************************************)
(* C25  A getAccessToken call that raises (transport failure, non-2xx      *)
(* answer, non-JSON body, missing access_token) writes nothing to the      *)
(* cache: neither the step that starts it nor the step in which it raises  *)
(* changes cachedToken or tokenExpiresAt, so a failed refresh keeps a      *)
(* still-cached token and stores no part of the answer.                    *)
(***************************************************************************)
\* the answers on which authentication fails
AuthFails(r) ==
    \/ r.kind = "rejected"
    \/ r.status < 200 \/ r.status > 299
    \/ ~r.json
    \/ r.body.access_token \in {Undefined, Str("")}

C25_FailureKeepsCache ==
    [][\A c \in Callers :
         /\ Enters(c) => UNCHANGED <<cachedToken, tokenExpiresAt>>
         /\ (pc[c] = "awaitToken" /\ pc'[c] # "awaitToken" /\ AuthFails(lastResponse'[c]))
            => /\ pc'[c] = "threw" /\ ret'[c].kind = "error"
               /\ UNCHANGED <<cachedToken, tokenExpiresAt>>
         /\ (pc[c] = "awaitToken" /\ pc'[c] = "threw")
            => /\ AuthFails(lastResponse'[c])
               /\ UNCHANGED <<cachedToken, tokenExpiresAt>>]_vars

\* a refresh failed on an answer without access_token while a token was cached:
\* the token and its expiry are still there
C25_Witness ==
    \E c \in Callers :
        /\ pc[c] = "threw"
        /\ lastResponse[c].kind = "http" /\ lastResponse[c].status = 200 /\ lastResponse[c].json
        /\ lastResponse[c].body.access_token = Undefined
        /\ lastResponse[c].body.expires_in = Num(60)
        /\ cachedToken \in AccessTokens
        /\ tokenExpiresAt = Num(120000)

(***************************************************************************)
(* C26  In every reachable state, under any interleaving of getAccessToken *)
(* and clearTokenCache calls, the cache is either empty (no token, expiry  *)
(* 0) or holds a non-empty access_token; and every step that changes the   *)
(* cache either empties it or stores the access_token of one successful    *)
(* answer together with the expiry computed from that same answer's        *)
(* expires_in: (start of the call) + expires_in * 1000.                    *)
(***************************************************************************)
\* now + expires_in * 1000, which is NaN for an expires_in that is no number
ExpiryFrom(at, expiresIn) ==
    IF expiresIn.t = "number" THEN Num(at + expiresIn.n * 1000) ELSE NaN
\* the times a call can start at
Times == {k * TickMs : k \in 0..MaxTicks}

CacheEmpty == cachedToken = Null /\ tokenExpiresAt = Num(0)
CacheHoldsOneAnswer(c) ==
    LET r == lastResponse'[c]
    IN  /\ pc[c] = "awaitToken" /\ pc'[c] \in {"done", "gotToken"}
        /\ r.kind = "http" /\ r.status >= 200 /\ r.status <= 299 /\ r.json
        /\ r.body.access_token.t = "string" /\ r.body.access_token.s # ""
        /\ cachedToken' = r.body.access_token
        /\ tokenExpiresAt' = ExpiryFrom(callNow[c], r.body.expires_in)

C26_CacheConsistent ==
    /\ [](\/ CacheEmpty
          \/ /\ cachedToken.t = "string" /\ cachedToken.s # ""
             /\ \E at \in Times, x \in ExpiresIns : tokenExpiresAt = ExpiryFrom(at, x))
    /\ [][<<cachedToken, tokenExpiresAt>>' # <<cachedToken, tokenExpiresAt>>
            => \/ CacheEmpty'
               \/ \E c \in Callers : CacheHoldsOneAnswer(c)]_vars

\* two overlapping calls were answered with different tokens and lifetimes; the
\* cache holds the token and the expiry of the later answer, nothing of the other
C26_Witness ==
    \E c \in Callers, d \in Callers :
        /\ pc[c] = "done" /\ pc[d] = "done"
        /\ lastResponse[c].body.access_token = Str("tokA")
        /\ lastResponse[c].body.expires_in = Num(120)
        /\ lastResponse[d].body.access_token = Str("tokB")
        /\ lastResponse[d].body.expires_in = Num(60)
        /\ cachedToken = Str("tokB") /\ tokenExpiresAt = Num(60000)

(***************************************************************************)
(* C27  For every raw member list M and every company c with               *)
(* transformCompany(c, M) not null, the teamMembers of the display company *)
(* are, in order, the {name, slug} of the display members that             *)
(* transformMember makes of the members of M whose team is c: every        *)
(* reference has the name and slug of a display member of                  *)
(* transformAllMembers(M), and a member that transformMember suppresses    *)
(* (hidden or without a team) is listed under no company.                  *)
(***************************************************************************)
Displayed(m) == transformMember(m).t = "object"

C27_NoDanglingReferences ==
    (/\ fn = "transformCompany"
     /\ WellFormedCompany(input.company) /\ input.company._id.t = "string"
     /\ \A i \in 1..Len(input.members) : WellFormedMember(input.members[i])
     /\ output.company.t = "object")
    => LET M == input.members
           all == transformAllMembers(M)
           teamMembers == output.company.v.teamMembers
           listed == Kept(M, LAMBDA m : Displayed(m) /\ m.team._id = input.company._id)
       IN  /\ all.t = "object"
           /\ \A i \in 1..Len(teamMembers) :
                \E j \in 1..Len(all.v) :
                    /\ all.v[j].name = teamMembers[i].name
                    /\ all.v[j].slug = teamMembers[i].slug
           /\ Len(teamMembers) = Cardinality(listed)
           /\ \A i \in listed :
                LET shown == transformMember(M[i]).v
                IN  teamMembers[PlaceOf(listed, i)] =
                        TeamMemberReference(shown.name, shown.slug)

\* company c1 with a member that names c1 as its company but has no team, a
\* hidden member of c1 and a visible member of c1: only the last is listed
C27_Witness ==
    /\ fn = "transformCompany" /\ output.company.t = "object"
    /\ input.company._id = Str("c1")
    /\ Len(input.members) = 3
    /\ input.members[1].company = Str("c1") /\ input.members[1].team = NoTeam
    /\ input.members[2].portalPrivacy = Hidden /\ input.members[2].team._id = Str("c1")
    /\ Displayed(input.members[3])
    /\ output.company.v.teamMembers =
          <<TeamMemberReference(Str("Ada Lovelace"), Str("ada-lovelace"))>>

====
